---------------------------- MODULE Spec2Model ----------------------------
(***************************************************************************)
(* A model of win-agent: the command gate (exec, log tail, service        *)
(* control), the command handlers behind their panic barrier, the         *)
(* telemetry publish path, the task scheduler, the metrics scrape and its *)
(* cache, the connection drain, the agent's shutdown, the health status,  *)
(* a command's run and reply, the configuration's validation, the agent's *)
(* bring-up, the metrics baseline, the executor's statistics behind their *)
(* mutexes, the initial connect and the two callers of Agent.Shutdown.    *)
(*                                                                         *)
(* Strings of the program are sequences of one-character strings, so that *)
(* the string functions of the code (strings.Fields, filepath.Clean,      *)
(* filepath.Base, filepath.Ext, filepath.Glob) are computed character by  *)
(* character, as the code computes them.  Error messages are sequences of *)
(* words.                                                                  *)
(*                                                                         *)
(* Each subsystem has its own specification (SpecExec, SpecLogs, ...):    *)
(* its Init draws the inputs of the operation from bounded sets and its   *)
(* actions are the operation's steps.  The variables of the other         *)
(* subsystems stay at their idle values.                                  *)
(***************************************************************************)
EXTENDS Integers, Sequences, FiniteSets, TLC

VARIABLES
    \* ---- exec gate (ExecuteCommand) ----
    command,            \* the request's command string
    allowedCommands,    \* config: commands.allowed_commands
    scriptsDir,         \* config: commands.scripts_directory ("" = none)
    execPc,             \* "idle" | "call" | "done"
    execResult,         \* what ExecuteCommand returned and what it spawned
    \* ---- log tail (FetchLogLines) ----
    logPath,            \* the request's log_path
    lines,              \* the request's lines
    allowedPatterns,    \* config: commands.allowed_log_paths
    logContent,         \* the bytes of the file TargetLog
    logPc,              \* "idle" | "call" | "done"
    logResult,          \* what FetchLogLines returned and the file-system calls it made
    \* ---- service control (ControlService) ----
    svcName,            \* the request's service_name
    svcAction,          \* the request's action
    allowedServices,    \* config: commands.allowed_services
    svcEnv,             \* which service-manager operations succeed
    svcPc,              \* "idle" | "call" | "done"
    svcResult,          \* what ControlService returned and the operations it performed
    \* ---- command handlers (handleWithRecovery) ----
    requests,           \* each request's subject and the path its handling takes
    hPc,                \* each request's position in its handler (0 = not delivered)
    replies,            \* each request's number of replies sent on its reply subject
    hPanicked,          \* whether the request's handler panicked
    commandsProcessed,  \* executor stats: commands handled
    commandsErrored,    \* executor stats: commands that failed
    hEffects,           \* each request's steps so far that reply, record or call the executor
    hReply,             \* each request's latest reply
    \* ---- telemetry publish (PublishTelemetry) ----
    pubVariant,         \* "single" (client.go) | "retrying" (the older client)
    pubSubject,         \* the subject of the call
    busMode,            \* "acking" | "stalled" | "closed"
    pubPc,              \* "idle" | "call" | "awaitAck" | "sleeping" | "returned"
    pubAttempt,         \* the attempt of the call
    pubErr,             \* the error the call returned
    pubEnqueued,        \* messages handed to the connection by the call
    pubAckWaits,        \* times the call has blocked for an acknowledgment
    pubSlept,           \* seconds the call has slept
    \* ---- scheduler ----
    processAlive,       \* the agent's process has not crashed
    schedState,         \* "idle" | "created" | "started"
    enabledTasks,       \* config: the tasks that are enabled
    running,            \* each task's number of invocations in progress
    panicked,           \* whether an invocation of the task has panicked
    firedAfterPanic,    \* whether the task has fired since it panicked
    startupRun,         \* inventory_startup: "none" | "running" | "returned" | "panicked"
    \* ---- metrics scrape (ScrapeMetrics and the cache) ----
    samples,            \* each scrape's aggregated CPU counters, as the exporter reports them
    scrapePc,           \* each scrape's position: "idle" | "fetch" | "cpu" | "disk" | "stamp" | "done" | "failed"
    cache,              \* the package's metrics cache: the five last* fields
    cacheWriter,        \* history: which scrape wrote each field of the cache (0 = none)
    observed,           \* history: the writers of the fields each scrape has read
    report,             \* each scrape's cpu_usage_percent in hundredths, and whether it was calculated
    clock,              \* time.Now, in ticks
    \* ---- connection drain (Client.Drain, Client.Close) ----
    drainVariant,       \* "plain" (client.go) | "checked" (the client with the closed check)
    drainTimeout,       \* the timeout of the call, in ticks
    connStatus,         \* the connection: "connected" | "draining" | "closed"
    drainPc,            \* the call of Drain: "idle" | "select" | "returned"
    connDrainPc,        \* the goroutine with c.conn.Drain(): "none" | "running" | "nil" | "err"
    elapsed,            \* ticks since Drain was called
    drainResult,        \* what Drain returned: "none" | "nil" | "err" | "timeout"
    drainCalls,         \* calls of Drain so far
    callOps,            \* the connection operations the call has performed
    closedAtCall,       \* history: the connection was closed when Drain was called
    doneAt,             \* history: elapsed when c.conn.Drain() returned to the waiting call (-1 = it has not)
    \* ---- agent lifecycle (Agent.Run, Agent.Shutdown) ----
    agentPc,            \* "idle" | "running" | "stopping" | "stopped" | "draining" | "done"
    jobsRunning,        \* invocations of the scheduled tasks in progress
    primingRun,         \* the inventory_startup goroutine: "none" | "running" | "returned"
    stopErr,            \* what Scheduler.Shutdown returned: "none" | "nil" | "err"
    lateTelemetry,      \* history: the flows that called PublishTelemetry after Scheduler.Shutdown returned
    busyAtDrain,        \* history: the flows that were executing when Drain was called
    \* ---- health status (handleHealth, determineHealthStatus) ----
    busConnected,       \* the connection's IsConnected()
    reconnects,         \* the connection's Stats().Reconnects
    metricsCount,       \* taskStats.metricsCount
    metricsFailures,    \* taskStats.metricsFailures
    scrapesAttempted,   \* history: runs of publishMetrics so far
    healthReply,        \* the last health response's status, and what it was computed from
    \* ---- command run (executePowerShell, handleCustomExec) ----
    runChild,           \* what the child does when it runs: whether it can be started, its exit code, stdout, stderr
    runTimeout,         \* config: commands.timeout, in ticks
    runPc,              \* the handler: "idle" | "call" | "select" | "returned" | "replied"
    childPc,            \* the child: "none" | "starting" | "running" | "exited" | "killed" | "failed"
    runElapsed,         \* ticks since executePowerShell began to wait
    runResult,          \* what ExecuteCommand returned
    runReply,           \* the reply the handler sent
    childAtTimeout,     \* history: the child when the timer case was taken ("none": it was not)
    \* ---- configuration (config.Load, validate) ----
    cfg,                \* the configuration read from the file, defaults applied
    cfgPc,              \* "idle" | "loaded" | "validated"
    cfgErr,             \* the error validate returned
    \* ---- bring-up (agent.New, program.Start) ----
    bringEnv,           \* which steps of agent.New fail
    bringPc,            \* "idle" | "start" | "failed" | "running" | "stopped"
    bringErr,           \* the error program.Start returned
    agentAlive,         \* the agent's process is running
    busLink,            \* "none" | "connected" | "reconnecting" | "closed"
    recovered,          \* the panics each kind of wrapper has recovered
    \* ---- metrics baseline (scheduleTasks) ----
    blEnabled,          \* config: which of the heartbeat and metrics tasks are enabled
    exporterUp,         \* whether the exporter answers the first, second and third scrape
    blPc,               \* "idle" | "scrape" | "sleep" | "register" | "created" | "started"
    blAttempt,          \* the attempt of the baseline loop
    baselineScrapes,    \* the results of the baseline scrapes made so far
    baselineErr,        \* whether baselineErr is set
    slept,              \* seconds slept between the attempts
    registered,         \* the jobs registered with the scheduler library
    metricsTicks,       \* ticks of the periodic metrics job so far
    \* ---- executor statistics and their mutexes (taskStats, stats) ----
    stFlow,             \* what each flow is running: a task's publish function, a command handler, the health handler
    stPc,               \* each flow's position in its steps (0: not started)
    stHeld,             \* the mutexes each flow holds, with the mode
    taskStats,          \* TaskStats: per-task counters and last timestamps, metricsFailures
    stats,              \* ExecutorStats: commandsProcessed, commandsErrored, lastError, lastErrorTime
    stClock,            \* time.Now() as seen by the Record functions
    stEffects,          \* history: what each flow's current run has recorded and handed to PublishTelemetry
    stDue,              \* history: per counter of TaskStats, the events it is to count
    stCalls,            \* history: the calls of RecordCommandSuccess and RecordCommandError entered
    errCalls,           \* history: the error and time of each RecordCommandError call
    agentMetrics,       \* the last GetAgentMetrics result
    stRuns,             \* history: the runs started
    \* ---- the initial connect (NewClient) ----
    cfgURLs,            \* cfg.URLs: the configured list of bus URLs
    accepting,          \* the servers that accept a connection
    connPc,             \* where NewClient is: idle, dialing, connected, failed
    serverPool,         \* the servers nats.Connect was given and has not yet tried
    dialed,             \* history: the servers dialed
    \* ---- the two callers of Agent.Shutdown ----
    sdPc,               \* where each caller of Agent.Shutdown is
    sdLogged,           \* the errors each call of Shutdown has logged
    sdResult,           \* what each call of Shutdown returned
    sdSchedulerStops,   \* history: the calls of Scheduler.Shutdown
    sdDrains            \* history: the calls of Client.Drain

execVars == <<command, allowedCommands, scriptsDir, execPc, execResult>>

logVars == <<logPath, lines, allowedPatterns, logContent, logPc, logResult>>

svcVars == <<svcName, svcAction, allowedServices, svcEnv, svcPc, svcResult>>

handlerVars ==
    <<requests, hPc, replies, hPanicked, commandsProcessed, commandsErrored, hEffects, hReply>>

pubVars ==
    <<pubVariant, pubSubject, busMode, pubPc, pubAttempt, pubErr, pubEnqueued, pubAckWaits,
      pubSlept>>

schedVars ==
    <<processAlive, schedState, enabledTasks, running, panicked, firedAfterPanic, startupRun>>

metricsVars ==
    <<samples, scrapePc, cache, cacheWriter, observed, report, clock>>

drainVars ==
    <<drainVariant, drainTimeout, connStatus, drainPc, connDrainPc, elapsed, drainResult,
      drainCalls, callOps, closedAtCall, doneAt>>

lifeVars ==
    <<agentPc, jobsRunning, primingRun, stopErr, lateTelemetry, busyAtDrain>>

healthVars ==
    <<busConnected, reconnects, metricsCount, metricsFailures, scrapesAttempted, healthReply>>

runVars ==
    <<runChild, runTimeout, runPc, childPc, runElapsed, runResult, runReply, childAtTimeout>>

configVars ==
    <<cfg, cfgPc, cfgErr>>

bringVars ==
    <<bringEnv, bringPc, bringErr, agentAlive, busLink, recovered>>

baselineVars ==
    <<blEnabled, exporterUp, blPc, blAttempt, baselineScrapes, baselineErr, slept,
      registered, metricsTicks>>

statVars ==
    <<stFlow, stPc, stHeld, taskStats, stats, stClock, stEffects, stDue, stCalls,
      errCalls, agentMetrics, stRuns>>

connectVars ==
    <<cfgURLs, accepting, connPc, serverPool, dialed>>

stopVars ==
    <<sdPc, sdLogged, sdResult, sdSchedulerStops, sdDrains>>

vars ==
    <<execVars, logVars, svcVars, handlerVars, pubVars,
      schedVars, metricsVars, drainVars, lifeVars, healthVars, runVars, configVars, bringVars, baselineVars, statVars, connectVars, stopVars>>

\* What an action of one subsystem leaves alone: the other subsystems.
ExceptExec ==
    <<logVars, svcVars, handlerVars, pubVars, schedVars,
      metricsVars, drainVars, lifeVars, healthVars, runVars, configVars, bringVars, baselineVars, statVars, connectVars, stopVars>>

ExceptLogs ==
    <<execVars, svcVars, handlerVars, pubVars, schedVars,
      metricsVars, drainVars, lifeVars, healthVars, runVars, configVars, bringVars, baselineVars, statVars, connectVars, stopVars>>

ExceptService ==
    <<execVars, logVars, handlerVars, pubVars, schedVars,
      metricsVars, drainVars, lifeVars, healthVars, runVars, configVars, bringVars, baselineVars, statVars, connectVars, stopVars>>

ExceptHandlers ==
    <<execVars, logVars, svcVars, pubVars, schedVars,
      metricsVars, drainVars, lifeVars, healthVars, runVars, configVars, bringVars, baselineVars, statVars, connectVars, stopVars>>

ExceptPublish ==
    <<execVars, logVars, svcVars, handlerVars, schedVars,
      metricsVars, drainVars, lifeVars, healthVars, runVars, configVars, bringVars, baselineVars, statVars, connectVars, stopVars>>

ExceptScheduler ==
    <<execVars, logVars, svcVars, handlerVars, pubVars,
      metricsVars, drainVars, lifeVars, healthVars, runVars, configVars, bringVars, baselineVars, statVars, connectVars, stopVars>>

ExceptMetrics ==
    <<execVars, logVars, svcVars, handlerVars, pubVars,
      schedVars, drainVars, lifeVars, healthVars, runVars, configVars, bringVars, baselineVars, statVars, connectVars, stopVars>>

ExceptDrain ==
    <<execVars, logVars, svcVars, handlerVars, pubVars,
      schedVars, metricsVars, lifeVars, healthVars, runVars, configVars, bringVars, baselineVars, statVars, connectVars, stopVars>>

ExceptLifecycle ==
    <<execVars, logVars, svcVars, handlerVars, pubVars,
      schedVars, metricsVars, drainVars, healthVars, runVars, configVars, bringVars, baselineVars, statVars, connectVars, stopVars>>

ExceptLifecycleAndDrain ==
    <<execVars, logVars, svcVars, handlerVars, pubVars,
      schedVars, metricsVars, healthVars, runVars, configVars, bringVars, baselineVars, statVars, connectVars, stopVars>>

ExceptHealth ==
    <<execVars, logVars, svcVars, handlerVars, pubVars,
      schedVars, metricsVars, drainVars, lifeVars, runVars, configVars, bringVars, baselineVars, statVars, connectVars, stopVars>>

ExceptRun ==
    <<execVars, logVars, svcVars, handlerVars, pubVars,
      schedVars, metricsVars, drainVars, lifeVars, healthVars, configVars, bringVars, baselineVars, statVars, connectVars, stopVars>>

ExceptConfig ==
    <<execVars, logVars, svcVars, handlerVars, pubVars,
      schedVars, metricsVars, drainVars, lifeVars, healthVars, runVars, bringVars, baselineVars, statVars, connectVars, stopVars>>

ExceptBringUp ==
    <<execVars, logVars, svcVars, handlerVars, pubVars,
      schedVars, metricsVars, drainVars, lifeVars, healthVars, runVars, configVars, baselineVars, statVars, connectVars, stopVars>>

ExceptBaseline ==
    <<execVars, logVars, svcVars, handlerVars, pubVars,
      schedVars, metricsVars, drainVars, lifeVars, healthVars, runVars, configVars, bringVars, statVars, connectVars, stopVars>>

ExceptStats ==
    <<execVars, logVars, svcVars, handlerVars, pubVars,
      schedVars, metricsVars, drainVars, lifeVars, healthVars, runVars, configVars, bringVars, baselineVars, connectVars, stopVars>>

ExceptConnect ==
    <<execVars, logVars, svcVars, handlerVars, pubVars,
      schedVars, metricsVars, drainVars, lifeVars, healthVars, runVars, configVars, bringVars, baselineVars, statVars, stopVars>>

ExceptStop ==
    <<execVars, logVars, svcVars, handlerVars, pubVars,
      schedVars, metricsVars, drainVars, lifeVars, healthVars, runVars, configVars, bringVars, baselineVars, statVars, connectVars>>

(***************************************************************************)
(* Bounds of the model.                                                    *)
(***************************************************************************)
\* A request string is the concatenation of at most MaxParts parts.
MaxParts == 3

\* A log file has at most MaxFileLen bytes.
MaxFileLen == 5

(***************************************************************************)
(* Strings.                                                                *)
(***************************************************************************)
RECURSIVE Concat(_)
\* The concatenation of a sequence of strings.
Concat(ss) == IF ss = <<>> THEN <<>> ELSE Head(ss) \o Concat(Tail(ss))

\* Every concatenation of at most n parts drawn from `parts`.
StringsOf(parts, n) ==
    { Concat(ps) : ps \in UNION { [1..k -> parts] : k \in 0..n } }

\* unicode.IsSpace on the characters of the model.
IsSpace(c) == c \in {" ", "\t", "\n", "\r"}

RECURSIVE FieldsFrom(_, _, _)
FieldsFrom(s, cur, acc) ==
    IF s = <<>>
    THEN IF cur = <<>> THEN acc ELSE Append(acc, cur)
    ELSE IF IsSpace(Head(s))
         THEN FieldsFrom(Tail(s), <<>>, IF cur = <<>> THEN acc ELSE Append(acc, cur))
         ELSE FieldsFrom(Tail(s), Append(cur, Head(s)), acc)

\* strings.Fields: the maximal runs of non-space characters.
Fields(s) == FieldsFrom(s, <<>>, <<>>)

RECURSIVE Join(_, _)
\* strings.Join.
Join(elems, sep) ==
    IF elems = <<>> THEN <<>>
    ELSE IF Len(elems) = 1 THEN Head(elems)
    ELSE Head(elems) \o sep \o Join(Tail(elems), sep)

\* strings.HasPrefix.
HasPrefix(s, p) == Len(p) <= Len(s) /\ SubSeq(s, 1, Len(p)) = p

\* Whether the words of `sub` occur consecutively in the message `msg`.
Contains(msg, sub) ==
    \E i \in 0..(Len(msg) - Len(sub)) : SubSeq(msg, i + 1, i + Len(sub)) = sub


(***************************************************************************)
(* Paths (path/filepath on Windows; UNC paths are not modelled).          *)
(***************************************************************************)
Separator == "\\"

\* os.IsPathSeparator on Windows: both slashes separate.
IsPathSeparator(c) == c \in {"\\", "/"}

Letters ==
    {"a","b","c","d","e","f","g","h","i","j","k","l","m","n","o","p","q","r","s",
     "t","u","v","w","x","y","z","A","B","C","D","E","F","G","H","I","J","K","L",
     "M","N","O","P","Q","R","S","T","U","V","W","X","Y","Z"}

\* len(filepath.VolumeName(path)): a drive letter and a colon.
VolumeNameLen(path) ==
    IF Len(path) >= 2 /\ path[2] = ":" /\ path[1] \in Letters THEN 2 ELSE 0

RECURSIVE PathElemsFrom(_, _, _)
PathElemsFrom(s, cur, acc) ==
    IF s = <<>>
    THEN IF cur = <<>> THEN acc ELSE Append(acc, cur)
    ELSE IF IsPathSeparator(Head(s))
         THEN PathElemsFrom(Tail(s), <<>>, IF cur = <<>> THEN acc ELSE Append(acc, cur))
         ELSE PathElemsFrom(Tail(s), Append(cur, Head(s)), acc)

\* The non-empty elements of a path between its separators.
PathElems(s) == PathElemsFrom(s, <<>>, <<>>)

RECURSIVE CleanElems(_, _, _)
\* The lexical walk of filepath.Clean: "." is dropped, ".." removes the element
\* before it, is dropped at the root and is kept at the start of a relative path.
CleanElems(elems, out, rooted) ==
    IF elems = <<>> THEN out
    ELSE LET e == Head(elems) IN
         IF e = <<".">> THEN CleanElems(Tail(elems), out, rooted)
         ELSE IF e = <<".", ".">>
              THEN IF out # <<>> /\ out[Len(out)] # <<".", ".">>
                   THEN CleanElems(Tail(elems), SubSeq(out, 1, Len(out) - 1), rooted)
                   ELSE IF rooted
                        THEN CleanElems(Tail(elems), out, rooted)
                        ELSE CleanElems(Tail(elems), Append(out, e), rooted)
              ELSE CleanElems(Tail(elems), Append(out, e), rooted)

\* filepath.Clean.
Clean(path) ==
    LET vol    == SubSeq(path, 1, VolumeNameLen(path))
        rest   == SubSeq(path, VolumeNameLen(path) + 1, Len(path))
        rooted == rest # <<>> /\ IsPathSeparator(rest[1])
        body   == Join(CleanElems(PathElems(rest), <<>>, rooted), <<Separator>>)
    IN  IF path = <<>> THEN <<".">>
        ELSE IF rooted THEN vol \o <<Separator>> \o body
        ELSE IF body = <<>> THEN vol \o <<".">>
        ELSE vol \o body

RECURSIVE StripTrailingSeparators(_)
StripTrailingSeparators(p) ==
    IF p # <<>> /\ IsPathSeparator(p[Len(p)])
    THEN StripTrailingSeparators(SubSeq(p, 1, Len(p) - 1))
    ELSE p

\* The index of the last separator of p, 0 when it has none.
LastSeparator(p) ==
    LET at == { i \in 1..Len(p) : IsPathSeparator(p[i]) }
    IN  IF at = {} THEN 0 ELSE CHOOSE i \in at : \A j \in at : j <= i

\* filepath.Base: the last element of the path.
Base(path) ==
    LET stripped == StripTrailingSeparators(path)
        noVol    == SubSeq(stripped, VolumeNameLen(stripped) + 1, Len(stripped))
        last     == SubSeq(noVol, LastSeparator(noVol) + 1, Len(noVol))
    IN  IF path = <<>> THEN <<".">>
        ELSE IF last = <<>> THEN <<Separator>>
        ELSE last

\* filepath.Ext: from the last dot of the last element.
Ext(path) ==
    LET from == LastSeparator(path) + 1
        dots == { i \in from..Len(path) : path[i] = "." }
    IN  IF dots = {} THEN <<>>
        ELSE SubSeq(path, CHOOSE i \in dots : \A j \in dots : j <= i, Len(path))

\* filepath.Join of two elements: empty elements are ignored, the result is Cleaned.
FilepathJoin(a, b) ==
    IF a = <<>> /\ b = <<>> THEN <<>>
    ELSE IF a = <<>> THEN Clean(b)
    ELSE IF b = <<>> THEN Clean(a)
    ELSE Clean(a \o <<Separator>> \o b)


UpperCase ==
    <<"A","B","C","D","E","F","G","H","I","J","K","L","M","N","O","P","Q","R","S",
      "T","U","V","W","X","Y","Z">>

LowerCase ==
    <<"a","b","c","d","e","f","g","h","i","j","k","l","m","n","o","p","q","r","s",
      "t","u","v","w","x","y","z">>

\* unicode.ToLower on the characters of the model.
LowerOf(c) ==
    IF \E i \in 1..Len(UpperCase) : UpperCase[i] = c
    THEN LowerCase[CHOOSE i \in 1..Len(UpperCase) : UpperCase[i] = c]
    ELSE c

\* strings.ToLower.
ToLower(s) == [i \in 1..Len(s) |-> LowerOf(s[i])]

(***************************************************************************)
(* The host's file system: the entries that exist, read-only in the model. *)
(* Windows file names are case-insensitive: two paths name the same entry  *)
(* when their absolute cleaned forms are equal up to letter case (there    *)
(* are no symbolic links in the model).                                    *)
(***************************************************************************)
Drive == <<"C", ":">>

ScriptsDirectory == Drive \o <<"\\", "s">>

\* The working directory of the agent's process, against which the OS and the
\* shell resolve a relative path.
Cwd == Drive \o <<"\\", "w">>

LogsDir == Drive \o <<"\\", "L">>

WindowsDir == Drive \o <<"\\", "W", "i", "n", "d", "o", "w", "s">>

\* The log file whose content the model varies.
TargetLog == LogsDir \o <<"\\", "a", ".", "l", "o", "g">>

ScriptEntries ==
    { [path |-> ScriptsDirectory, isDir |-> TRUE],
      [path |-> ScriptsDirectory \o <<"\\", "a", ".", "p", "s", "1">>, isDir |-> FALSE],
      [path |-> ScriptsDirectory \o <<"\\", "d", ".", "p", "s", "1">>, isDir |-> TRUE],
      [path |-> Cwd, isDir |-> TRUE] }

LogEntries ==
    { [path |-> LogsDir, isDir |-> TRUE],
      [path |-> TargetLog, isDir |-> FALSE],
      [path |-> LogsDir \o <<"\\", "S", "A", "M">>, isDir |-> FALSE],
      [path |-> LogsDir \o <<"\\", "m", ".", "e", "x", "e">>, isDir |-> FALSE],
      [path |-> LogsDir \o <<"\\", "S", "y", "S", "t", "E", "m", "3", "2">>, isDir |-> TRUE],
      [path |-> LogsDir \o <<"\\", "S", "y", "S", "t", "E", "m", "3", "2", "\\", "t", ".", "l", "o", "g">>,
       isDir |-> FALSE],
      [path |-> WindowsDir, isDir |-> TRUE],
      [path |-> WindowsDir \o <<"\\", "w", ".", "i", "n", "i">>, isDir |-> FALSE] }

FileSystem == ScriptEntries \cup LogEntries

\* The absolute path the OS resolves a path to: a path with no drive is on the
\* working directory's drive, a relative path is under the working directory.
Abs(p) ==
    LET rest   == SubSeq(p, VolumeNameLen(p) + 1, Len(p))
        rooted == rest # <<>> /\ IsPathSeparator(rest[1])
    IN  IF rooted
        THEN Clean((IF VolumeNameLen(p) = 0 THEN Drive ELSE SubSeq(p, 1, 2)) \o rest)
        ELSE Clean(Cwd \o <<Separator>> \o rest)

\* Whether two paths name the same entry.
SamePath(p, q) == ToLower(Abs(p)) = ToLower(Abs(q))

\* os.Stat: whether the path exists, and whether it is a directory.
StatExists(path) == \E e \in FileSystem : SamePath(e.path, path)

StatIsDir(path) == \E e \in FileSystem : SamePath(e.path, path) /\ e.isDir

\* The directory part of a path: up to and including its last separator (or its
\* volume name).
SplitDir(path) ==
    LET noVol == SubSeq(path, VolumeNameLen(path) + 1, Len(path))
    IN  SubSeq(path, 1, VolumeNameLen(path) + LastSeparator(noVol))

\* The file part of a path: after its last separator.
SplitFile(path) == SubSeq(path, Len(SplitDir(path)) + 1, Len(path))

\* Readdirnames: the names of the entries directly inside a directory.
ReadDirNames(dir) ==
    { SplitFile(e.path) : e \in { f \in FileSystem :
        /\ SplitFile(f.path) # <<>>
        /\ ~SamePath(f.path, SplitDir(f.path))
        /\ SamePath(SplitDir(f.path), dir) } }

(***************************************************************************)
(* The exec gate: ExecuteCommand and what it calls.                        *)
(***************************************************************************)
Ps1 == <<".", "p", "s", "1">>

NoError == <<>>

ErrCommandNotAllowed ==
    <<"command", "not", "in", "allowed", "list", "or", "scripts", "directory">>
ErrFailedToExecute == <<"failed", "to", "execute", "command">>
ErrCommandExited == <<"command", "exited", "with", "code">>
ErrCommandTimeout == <<"command", "execution", "timeout">>

\* A comparison of the strings as they were written.
withoutNormalization(s) == s

\* normalizeWhitespace: split on whitespace, join with single spaces.
normalizeWhitespace(s) == Join(Fields(s), <<" ">>)

\* isScript: the last path element of the command has the extension .ps1.
isScript(cmd) == Ext(Base(cmd)) = Ps1

\* isScriptAllowed: the command's file name, joined to the scripts directory,
\* is an existing regular file.  Only the base name of the command is looked at.
isScriptAllowed(cmd, dir) ==
    LET cleanScriptsDir == Clean(dir)
        commandFilename == Base(cmd)
        scriptPath      == FilepathJoin(cleanScriptsDir, commandFilename)
        cleanScriptPath == Clean(scriptPath)
    IN  IF Ext(commandFilename) # Ps1 THEN FALSE
        ELSE IF /\ ~HasPrefix(cleanScriptPath, cleanScriptsDir \o <<Separator>>)
                /\ cleanScriptPath # cleanScriptsDir
             THEN FALSE
        ELSE IF ~StatExists(cleanScriptPath) THEN FALSE
        ELSE IF StatIsDir(cleanScriptPath) THEN FALSE
        ELSE TRUE

\* A whitelist check that accepts a command starting with an allowed entry.
isCommandAllowedByPrefix(cmd, allowed, dir) ==
    \/ \E i \in 1..Len(allowed) :
          HasPrefix(normalizeWhitespace(cmd), normalizeWhitespace(allowed[i]))
    \/ (dir # <<>> /\ isScript(cmd) /\ isScriptAllowed(cmd, dir))

\* isCommandAllowed: an exact match of the normalized command in the list, or a
\* script of the scripts directory.
isCommandAllowed(cmd, allowed, dir) ==
    \/ \E i \in 1..Len(allowed) :
          normalizeWhitespace(cmd) = normalizeWhitespace(allowed[i])
    \/ (dir # <<>> /\ isScript(cmd) /\ isScriptAllowed(cmd, dir))

\* resolveScriptPath: a bare file name is joined to the scripts directory, any
\* other command is returned as it is.
resolveScriptPath(cmd, dir) ==
    IF Base(cmd) = cmd THEN FilepathJoin(dir, cmd) ELSE cmd

\* What the child process does: it cannot be started, it exits with a code
\* having written stdout and stderr, or it is still running at the timeout.
Children ==
    { [kind |-> "startfail", code |-> -1, stdout |-> <<>>, stderr |-> <<>>],
      [kind |-> "timeout",   code |-> -1, stdout |-> <<>>, stderr |-> <<>>] }
    \cup
    { [kind |-> "exit", code |-> c, stdout |-> o, stderr |-> e] :
        c \in {0, 3}, o \in {<<>>, <<"out">>}, e \in {<<>>, <<"err">>} }

\* The output executePowerShell returns for an exited child: stdout, then
\* stderr under a STDERR: marker.
CombinedOutput(child) ==
    IF child.stderr = <<>> THEN child.stdout
    ELSE (IF child.stdout # <<>> THEN child.stdout \o <<"\n">> ELSE <<>>)
         \o <<"STDERR:", "\n">> \o child.stderr

\* executePowerShell(command, timeout) for a given child behaviour.
executePowerShell(cmd, child) ==
    CASE child.kind = "startfail" ->
            [output |-> <<>>, exitCode |-> -1, err |-> ErrFailedToExecute,
             handed |-> TRUE, shell |-> cmd, killed |-> FALSE]
      [] child.kind = "timeout" ->
            [output |-> <<>>, exitCode |-> -1, err |-> ErrCommandTimeout,
             handed |-> TRUE, shell |-> cmd, killed |-> TRUE]
      [] child.kind = "exit" ->
            [output |-> CombinedOutput(child), exitCode |-> child.code,
             err |-> IF child.code # 0 THEN ErrCommandExited ELSE NoError,
             handed |-> TRUE, shell |-> cmd, killed |-> FALSE]

\* ExecuteCommand(command, allowedCommands, scriptsDir, timeout).
ExecuteCommand(cmd, allowed, dir, child) ==
    IF ~isCommandAllowed(cmd, allowed, dir)
    THEN [output |-> <<>>, exitCode |-> -1, err |-> ErrCommandNotAllowed,
          handed |-> FALSE, shell |-> <<>>, killed |-> FALSE]
    ELSE LET fullCommand == IF dir # <<>> /\ isScript(cmd)
                            THEN resolveScriptPath(cmd, dir)
                            ELSE cmd
         IN  executePowerShell(fullCommand, child)

NoExecResult ==
    [output |-> <<>>, exitCode |-> 0, err |-> NoError,
     handed |-> FALSE, shell |-> <<>>, killed |-> FALSE]

\* The parts a request's command is built from.
CommandParts ==
    { <<"a">>, <<"A">>, <<" ">>, <<"\t", " ">>, <<";">>, <<"\\">>, <<".", ".">>,
      <<"a", ".", "p", "s", "1">>, <<"d", ".", "p", "s", "1">> }

\* The configured whitelists of the model.
Whitelists ==
    { <<>>,
      << <<"a", " ", "A">> >>,
      << <<"A">>, <<" ", "a", " ", " ", "A", ";", "a">>, <<"a", ".", "p", "s", "1">> >> }

ExecIdle ==
    /\ command = <<>>
    /\ allowedCommands = <<>>
    /\ scriptsDir = <<>>
    /\ execPc = "idle"
    /\ execResult = NoExecResult

InitExec ==
    /\ command \in StringsOf(CommandParts, MaxParts)
    /\ allowedCommands \in Whitelists
    /\ scriptsDir \in {<<>>, ScriptsDirectory, ScriptsDirectory \o <<Separator>>}
    /\ execPc = "call"
    /\ execResult = NoExecResult

\* The exec handler's call of ExecuteCommand, with the child behaving in one of
\* the ways a child can.
ExecuteCommandCall ==
    /\ execPc = "call"
    /\ \E child \in Children :
          execResult' = ExecuteCommand(command, allowedCommands, scriptsDir, child)
    /\ execPc' = "done"
    /\ UNCHANGED <<command, allowedCommands, scriptsDir>>
    /\ UNCHANGED ExceptExec

NextExec == ExecuteCommandCall


(***************************************************************************)
(* Claims about the exec gate.                                             *)
(***************************************************************************)
\* The k-th smallest element of a set of numbers.
Nth(S, k) == CHOOSE x \in S : Cardinality({ y \in S : y <= x }) = k

\* The words of a string, by position: a word starts at a non-space character
\* that is first or follows a space, and ends at a non-space character that is
\* last or precedes a space.  Two strings have the same whitespace-normalized
\* form exactly when they have the same words.
WordList(s) ==
    LET starts == { i \in 1..Len(s) : ~IsSpace(s[i]) /\ (i = 1 \/ IsSpace(s[i - 1])) }
        ends   == { i \in 1..Len(s) : ~IsSpace(s[i]) /\ (i = Len(s) \/ IsSpace(s[i + 1])) }
    IN  [k \in 1..Cardinality(starts) |-> SubSeq(s, Nth(starts, k), Nth(ends, k))]

\* The command has the normalized form of an entry of the whitelist.
Whitelisted(cmd, allowed) ==
    \E i \in 1..Len(allowed) : WordList(cmd) = WordList(allowed[i])

\* C2: with no scripts directory configured, ExecuteCommand hands the command
\* to the shell if and only if its whitespace-normalized form equals, case
\* sensitively, the normalized form of an allowed_commands entry; every other
\* command gets an error containing "not in allowed list" and nothing is spawned.
C2_ExactWhitelistMatch ==
    (execPc = "done" /\ scriptsDir = <<>>) =>
        IF Whitelisted(command, allowedCommands)
        THEN execResult.handed /\ execResult.shell = command
        ELSE /\ ~execResult.handed
             /\ Contains(execResult.err, <<"not", "in", "allowed", "list">>)

\* C2's case: a command that is not spelled like any entry is authorized through
\* normalization, and a command that extends an entry is rejected.
C2_Witness ==
    /\ execPc = "done"
    /\ scriptsDir = <<>>
    /\ execResult.handed
    /\ \A i \in 1..Len(allowedCommands) : allowedCommands[i] # command
    /\ Len(command) > 3

\* The path the shell runs for a command string: a relative path is resolved
\* against the working directory.
ShellTarget(sh) == Abs(sh)

\* C3: a command authorized through the scripts-directory path is handed to
\* the shell as the name of one regular .ps1 file strictly inside the scripts
\* directory.
C3_ScriptInsideScriptsDir ==
    (/\ execPc = "done"
     /\ execResult.handed
     /\ scriptsDir # <<>>
     /\ ~Whitelisted(command, allowedCommands)) =>
        \E e \in FileSystem :
            /\ ~e.isDir
            /\ Ext(e.path) = Ps1
            /\ HasPrefix(Clean(e.path), Clean(scriptsDir) \o <<Separator>>)
            /\ ToLower(ShellTarget(execResult.shell)) = ToLower(Clean(e.path))


(***************************************************************************)
(* The log tail: FetchLogLines and what it calls.                          *)
(***************************************************************************)
ErrLogPathNotAllowed == <<"log", "path", "not", "in", "allowed", "list", ":">>
ErrLinesNotPositive == <<"lines", "must", "be", "greater", "than", "0">>
ErrLinesTooMany == <<"lines", "cannot", "exceed", "10000">>
ErrReadingFile == <<"error", "reading", "file:">>
ErrOpenFile == <<"failed", "to", "open", "file:">>

\* The largest lines value FetchLogLines accepts.
MaxLines == 10000

\* The file size from which tailFile reads backwards (1 MiB in the source), and
\* the size of the chunks it reads (4096 in the source), scaled down so that
\* files on both sides of the limit, and lines on both sides of a chunk
\* boundary, are within the model's file lengths.
SmallFileLimit == 4

bufferSize == 2

\* Whether a glob pattern has a wildcard (hasMeta; character classes are not
\* modelled).
hasMeta(pattern) == \E i \in 1..Len(pattern) : pattern[i] \in {"*", "?"}

RECURSIVE Match(_, _)
\* filepath.Match of one path element: * is any run of non-separators, ? is one.
Match(p, s) ==
    IF p = <<>> THEN s = <<>>
    ELSE IF Head(p) = "*"
         THEN \E k \in 0..Len(s) :
                 /\ \A j \in 1..k : ~IsPathSeparator(s[j])
                 /\ Match(Tail(p), SubSeq(s, k + 1, Len(s)))
    ELSE IF Head(p) = "?"
         THEN s # <<>> /\ ~IsPathSeparator(Head(s)) /\ Match(Tail(p), Tail(s))
    ELSE s # <<>> /\ Head(s) = Head(p) /\ Match(Tail(p), Tail(s))

\* cleanGlobPathWindows: the directory of a pattern without its trailing
\* separator (a root keeps it).
cleanGlobPath(dir) ==
    IF dir = <<>> THEN <<".">>
    ELSE IF VolumeNameLen(dir) + 1 = Len(dir) /\ IsPathSeparator(dir[Len(dir)]) THEN dir
    ELSE IF VolumeNameLen(dir) = Len(dir) THEN dir \o <<".">>
    ELSE SubSeq(dir, 1, Len(dir) - 1)

\* glob(dir, pattern): the entries of a directory whose names match.
GlobIn(dir, file) ==
    IF ~StatIsDir(dir) THEN {}
    ELSE { FilepathJoin(dir, n) : n \in { m \in ReadDirNames(dir) : Match(file, m) } }

RECURSIVE Glob(_)
\* filepath.Glob: a pattern with no wildcard is itself when it exists; otherwise
\* the directory part is expanded first and the file part is matched in each
\* directory.
Glob(pattern) ==
    IF ~hasMeta(pattern)
    THEN IF StatExists(pattern) THEN {pattern} ELSE {}
    ELSE LET dir  == cleanGlobPath(SplitDir(pattern))
             file == SplitFile(pattern)
             dirs == IF hasMeta(dir) THEN Glob(dir) ELSE {dir}
         IN  UNION { GlobIn(d, file) : d \in dirs }

\* A path check that accepts any path written under the directory of a pattern.
isPathAllowedByDirPrefix(requestedPath, patterns) ==
    \E i \in 1..Len(patterns) : HasPrefix(requestedPath, SplitDir(patterns[i]))

\* isPathAllowed: the cleaned path equals a cleaned expansion of a pattern.
isPathAllowed(requestedPath, patterns) ==
    LET cleanPath == Clean(requestedPath)
    IN  \E i \in 1..Len(patterns) :
            \E match \in Glob(patterns[i]) : cleanPath = Clean(match)

\* The bytes of a file.
FileContent(path) == IF SamePath(path, TargetLog) THEN logContent ELSE <<"z", "\n">>

\* dropCR of bufio.ScanLines.
DropCR(line) ==
    IF line # <<>> /\ line[Len(line)] = "\r" THEN SubSeq(line, 1, Len(line) - 1) ELSE line

RECURSIVE ScanLines(_, _, _)
\* bufio.Scanner with ScanLines: a token ends at each newline, a last token
\* without newline is returned when it is not empty.
ScanLines(data, cur, acc) ==
    IF data = <<>>
    THEN IF cur = <<>> THEN acc ELSE Append(acc, DropCR(cur))
    ELSE IF Head(data) = "\n"
         THEN ScanLines(Tail(data), <<>>, Append(acc, DropCR(cur)))
         ELSE ScanLines(Tail(data), Append(cur, Head(data)), acc)

\* The last n elements of a sequence.
LastN(seq, n) == IF Len(seq) <= n THEN seq ELSE SubSeq(seq, Len(seq) - n + 1, Len(seq))

\* readAllLines: every line is read, the last n are returned.
readAllLines(content, n) == LastN(ScanLines(content, <<>>, <<>>), n)

\* reverseString (on single-byte characters).
reverseString(str) == [i \in 1..Len(str) |-> str[Len(str) + 1 - i]]

RECURSIVE ProcessBuffer(_, _, _, _, _)
\* The inner loop of readLastNLines: one chunk, from its last byte to its first.
\* currentLine collects bytes in reverse; a newline closes a non-empty line.
ProcessBuffer(buffer, i, tailLines, currentLine, n) ==
    IF i = 0 THEN [lines |-> tailLines, currentLine |-> currentLine]
    ELSE IF buffer[i] = "\n"
         THEN LET added == IF currentLine # <<>>
                           THEN <<currentLine>> \o tailLines
                           ELSE tailLines
              IN  IF Len(added) >= n
                  THEN [lines |-> added, currentLine |-> <<>>]
                  ELSE ProcessBuffer(buffer, i - 1, added, <<>>, n)
    ELSE IF buffer[i] # "\r"
         THEN ProcessBuffer(buffer, i - 1, tailLines, Append(currentLine, buffer[i]), n)
    ELSE ProcessBuffer(buffer, i - 1, tailLines, currentLine, n)

RECURSIVE ReadChunks(_, _, _, _, _)
\* The outer loop of readLastNLines: chunks of bufferSize bytes from the end.
ReadChunks(content, pos, tailLines, currentLine, n) ==
    IF Len(tailLines) < n /\ pos > 0
    THEN LET readSize == IF pos < bufferSize THEN pos ELSE bufferSize
             newPos   == pos - readSize
             buffer   == SubSeq(content, newPos + 1, newPos + readSize)
             after    == ProcessBuffer(buffer, readSize, tailLines, currentLine, n)
         IN  ReadChunks(content, newPos, after.lines, after.currentLine, n)
    ELSE [lines |-> tailLines, currentLine |-> currentLine]

\* readLastNLines.
readLastNLines(content, fileSize, n) ==
    LET read     == ReadChunks(content, fileSize, <<>>, <<>>, n)
        withLast == IF read.currentLine # <<>>
                    THEN <<reverseString(read.currentLine)>> \o read.lines
                    ELSE read.lines
    IN  [i \in 1..Len(withLast) |->
            IF i = 1 /\ read.currentLine # <<>> THEN withLast[i]
            ELSE reverseString(withLast[i])]

\* tailFile: open, stat, then one of the two readers by file size.  Reading a
\* directory fails.
tailFile(filePath, n) ==
    IF ~StatExists(filePath)
    THEN [lines |-> <<>>, err |-> ErrOpenFile, ops |-> <<"open">>]
    ELSE IF StatIsDir(filePath)
    THEN [lines |-> <<>>, err |-> ErrReadingFile, ops |-> <<"open", "stat", "read">>]
    ELSE LET content == FileContent(filePath) IN
         [lines |-> IF Len(content) < SmallFileLimit
                    THEN readAllLines(content, n)
                    ELSE readLastNLines(content, Len(content), n),
          err |-> NoError,
          ops |-> <<"open", "stat", "read">>]

\* FetchLogLines(logPath, lines, allowedPatterns): the path check, which expands
\* the patterns on the file system, then the lines check, then the read.
FetchLogLines(path, n, patterns) ==
    LET globOps == IF patterns = <<>> THEN <<>> ELSE <<"glob">> IN
    IF ~isPathAllowed(path, patterns)
    THEN [lines |-> <<>>, err |-> ErrLogPathNotAllowed, ops |-> globOps]
    ELSE IF n <= 0
    THEN [lines |-> <<>>, err |-> ErrLinesNotPositive, ops |-> globOps]
    ELSE IF n > MaxLines
    THEN [lines |-> <<>>, err |-> ErrLinesTooMany, ops |-> globOps]
    ELSE LET read == tailFile(path, n) IN
         [lines |-> read.lines, err |-> read.err, ops |-> globOps \o read.ops]

NoLogResult == [lines |-> <<>>, err |-> NoError, ops |-> <<>>]

\* What a request's log_path is built from: a start, some hops, a file name.
LogRoots == { <<>>, Drive \o <<"\\">>, LogsDir \o <<"\\">> }

LogHops ==
    { <<".", ".", "\\">>, <<"L", "\\">>, <<"W", "i", "n", "d", "o", "w", "s", "\\">>,
      <<"S", "y", "S", "t", "E", "m", "3", "2", "\\">> }

LogNames ==
    { <<"a", ".", "l", "o", "g">>, <<"A", ".", "l", "o", "g">>, <<"t", ".", "l", "o", "g">>,
      <<"w", ".", "i", "n", "i">>, <<"S", "A", "M">>, <<"m", ".", "e", "x", "e">> }

LogPaths ==
    { r \o h \o f : r \in LogRoots, h \in StringsOf(LogHops, MaxParts - 1), f \in LogNames }

\* The configured lists of allowed log path patterns of the model.
PatternLists ==
    { <<>>,
      << LogsDir \o <<"\\", "*", ".", "l", "o", "g">> >>,
      << LogsDir \o <<"\\", "*">>, WindowsDir \o <<"\\", "*">> >>,
      << LogsDir \o <<"\\", ".", ".", "\\", "L", "\\", "a", ".", "l", "o", "g">>,
         LogsDir \o <<"\\", "*", "\\", "?", ".", "l", "o", "g">> >> }

\* The bytes a log file is made of.
ContentChars == {"x", "y", "\n", "\r"}

DefaultContent == <<"x", "\n", "y", "\n">>

LogsIdle ==
    /\ logPath = <<>>
    /\ lines = 0
    /\ allowedPatterns = <<>>
    /\ logContent = DefaultContent
    /\ logPc = "idle"
    /\ logResult = NoLogResult

\* The requests of the path gate: any path, any lines, any pattern list.
InitLogs ==
    /\ logPath \in LogPaths
    /\ lines \in {-1, 0, 1, 2, MaxLines, MaxLines + 1}
    /\ allowedPatterns \in PatternLists
    /\ logContent = DefaultContent
    /\ logPc = "call"
    /\ logResult = NoLogResult

\* The requests of the tail: an allowed file of any content, any valid lines.
InitTail ==
    /\ logPath = TargetLog
    /\ lines \in 1..3
    /\ allowedPatterns = << LogsDir \o <<"\\", "*", ".", "l", "o", "g">> >>
    /\ logContent \in UNION { [1..k -> ContentChars] : k \in 0..MaxFileLen }
    /\ logPc = "call"
    /\ logResult = NoLogResult

\* The logs handler's call of FetchLogLines.
FetchLogLinesCall ==
    /\ logPc = "call"
    /\ logResult' = FetchLogLines(logPath, lines, allowedPatterns)
    /\ logPc' = "done"
    /\ UNCHANGED <<logPath, lines, allowedPatterns, logContent>>
    /\ UNCHANGED ExceptLogs

NextLogs == FetchLogLinesCall


(***************************************************************************)
(* Claims about the log tail.                                              *)
(***************************************************************************)
\* The cleaned forms of the expansions of the allowed patterns.
Expansions(patterns) ==
    UNION { { Clean(m) : m \in Glob(patterns[i]) } : i \in 1..Len(patterns) }

\* The operations of a trace.
OpsOf(ops) == { ops[i] : i \in 1..Len(ops) }

\* C4: FetchLogLines opens a file only if the cleaned log_path is the cleaned
\* form of an expansion of an allowed pattern; every other request, a traversal
\* out of an allowed directory among them, fails with an error containing "not
\* in allowed list" and no file is opened or read.
C4_OpenOnlyExpansion ==
    logPc = "done" =>
        IF Clean(logPath) \in Expansions(allowedPatterns)
        THEN ~Contains(logResult.err, <<"not", "in", "allowed", "list">>)
        ELSE /\ Contains(logResult.err, <<"not", "in", "allowed", "list">>)
             /\ OpsOf(logResult.ops) \cap {"open", "stat", "read"} = {}
             /\ logResult.lines = <<>>

\* A request <allowed_dir>\..\<other> for an existing file outside the allowed
\* patterns has been refused.
C4_Witness ==
    /\ logPc = "done"
    /\ allowedPatterns = << LogsDir \o <<"\\", "*", ".", "l", "o", "g">> >>
    /\ logPath = LogsDir \o <<"\\", ".", ".", "\\", "W", "i", "n", "d", "o", "w", "s", "\\", "w", ".", "i", "n", "i">>
    /\ lines = 1
    /\ StatExists(logPath)
    /\ Contains(logResult.err, <<"not", "in", "allowed", "list">>)
    /\ logResult.ops = <<"glob">>

\* A path the tests of isPathAllowed expect to be refused: inside a directory
\* named Windows, System32 or Program Files in any letter case, a file named
\* SAM, or a file with the extension .exe, .dll or .sys.
Protected(path) ==
    LET abs   == Abs(path)
        elems == PathElems(SubSeq(abs, VolumeNameLen(abs) + 1, Len(abs)))
    IN  \/ \E i \in 1..Len(elems) :
              ToLower(elems[i]) \in
                  { <<"w", "i", "n", "d", "o", "w", "s">>,
                    <<"s", "y", "s", "t", "e", "m", "3", "2">>,
                    <<"p", "r", "o", "g", "r", "a", "m", " ", "f", "i", "l", "e", "s">> }
        \/ Base(abs) = <<"S", "A", "M">>
        \/ ToLower(Ext(abs)) \in
              { <<".", "e", "x", "e">>, <<".", "d", "l", "l">>, <<".", "s", "y", "s">> }

\* C5: isPathAllowed is false for every path in a system directory, for a file
\* named SAM and for a file with the extension .exe, .dll or .sys, even when an
\* allowed pattern matches an existing file at that path.
C5_SystemPathsRefused ==
    (logPc = "done" /\ Protected(logPath)) =>
        /\ ~isPathAllowed(logPath, allowedPatterns)
        /\ Contains(logResult.err, <<"not", "in", "allowed", "list">>)

\* C6: lines <= 0 fails with "lines must be greater than 0" and lines > 10000
\* with "lines cannot exceed 10000", for every log_path, before any access to
\* the file system.
C6_LinesCheckedFirst ==
    logPc = "done" =>
        /\ lines <= 0 => (logResult.err = ErrLinesNotPositive /\ logResult.ops = <<>>)
        /\ lines > 10000 => (logResult.err = ErrLinesTooMany /\ logResult.ops = <<>>)

\* The lines of a file, by position: a line starts at the first byte and after
\* each newline, and ends before the next newline or at the end of the file; a
\* carriage return before the newline belongs to the line ending.
RefLines(content) ==
    LET newlines == { i \in 1..Len(content) : content[i] = "\n" }
        starts   == { i \in 1..Len(content) : i = 1 \/ content[i - 1] = "\n" }
        EndOf(b) == LET nl == { i \in newlines : i >= b }
                    IN  IF nl = {} THEN Len(content)
                        ELSE (CHOOSE i \in nl : \A j \in nl : i <= j) - 1
        Strip(l) == IF l # <<>> /\ l[Len(l)] = "\r" THEN SubSeq(l, 1, Len(l) - 1) ELSE l
    IN  [k \in 1..Cardinality(starts) |->
            Strip(SubSeq(content, Nth(starts, k), EndOf(Nth(starts, k))))]

\* C7: for an allowed file of n lines and 1 <= k <= 10000, the tail returns the
\* final min(k, n) lines of the file, each with its content, in file order, on
\* the small-file path and on the backward chunk path.
C7_TailIsFinalLines ==
    (logPc = "done" /\ logPath = TargetLog /\ lines >= 1 /\ lines <= 10000
        /\ isPathAllowed(logPath, allowedPatterns)) =>
        /\ logResult.err = NoError
        /\ logResult.lines =
              LET ref == RefLines(logContent)
                  n   == Len(ref)
                  m   == IF lines < n THEN lines ELSE n
              IN  [i \in 1..m |-> ref[n - m + i]]

\* C39: the two tail implementations agree: for every file content (blank
\* lines, CRLF line endings, a missing final newline) and every n >= 1,
\* readLastNLines returns the same lines as readAllLines, so the lines a
\* log-tail request returns do not depend on the size of the file.
C39_TailPathsAgree ==
    (logPc = "done" /\ logResult.err = NoError /\ lines >= 1) =>
        /\ readLastNLines(logContent, Len(logContent), lines) = readAllLines(logContent, lines)
        /\ logResult.lines = readAllLines(logContent, lines)

(***************************************************************************)
(* Service control: ControlService and what it calls.                      *)
(***************************************************************************)
ErrServiceNotAllowed(name) == <<"service", "not", "in", "allowed", "list", ":", name>>

ErrInvalidAction(action) ==
    <<"invalid", "action", ":", action, "(must", "be", "start,", "stop,", "or", "restart)">>

\* isServiceAllowed: the name is an entry of the list.
isServiceAllowed(name, allowed) == \E i \in 1..Len(allowed) : name = allowed[i]

\* 30*time.Second and 500*time.Millisecond, in milliseconds.
stateTimeout == 30000
pollInterval == 500

\* A service that never reaches the state.
Never == -1

ErrWaitTimeout == <<"timeout", "waiting", "for", "service", "state">>
ErrQueryFailed == <<"query", "failed">>

\* Whether a service that reaches the target state `at` milliseconds after the
\* request is in that state `now` milliseconds after it.
InState(at, now) == at # Never /\ now >= at

\* The loop of waitForServiceState: iteration k starts k sleeps after the call
\* and runs while the deadline is ahead; it queries the service and returns the
\* query's error, or nil when the state is the target, and otherwise sleeps for
\* the poll interval.  The loop is given by its first iteration that returns;
\* when none does, the timeout error is returned after the last sleep.  Time is
\* counted in the sleeps.
PollServiceState(at, queryOk, deadline) ==
    LET iterations == {k \in 0..(deadline \div pollInterval) : k * pollInterval < deadline}
        returning == {k \in iterations : ~queryOk \/ InState(at, k * pollInterval)}
        queries(n) == [i \in 1..n |-> "query"]
    IN  IF returning = {}
        THEN [ops |-> queries(Cardinality(iterations)), err |-> ErrWaitTimeout,
              ended |-> Cardinality(iterations) * pollInterval]
        ELSE LET k == CHOOSE i \in returning : \A j \in returning : i <= j
             IN  [ops |-> queries(k + 1),
                  err |-> IF queryOk THEN NoError ELSE ErrQueryFailed,
                  ended |-> k * pollInterval]

\* A wait that queries once and returns nil whatever the state is.
waitWithoutPolling(at, queryOk) ==
    [ops |-> <<"query">>, err |-> IF queryOk THEN NoError ELSE ErrQueryFailed, ended |-> 0]

\* waitForServiceState(s, targetState, 30*time.Second): polls the service until
\* it is in the state, a query fails or the deadline has passed.
waitForServiceState(at, queryOk) == PollServiceState(at, queryOk, stateTimeout)

\* The start case of ControlService.
StartCase(name, env) ==
    IF ~env.start
    THEN [ops |-> <<"start">>, waits |-> <<>>, result |-> <<>>,
          err |-> <<"failed", "to", "start", "service">>]
    ELSE [ops |-> <<"start">>, waits |-> <<>>,
          result |-> <<"Service", name, "started", "successfully">>, err |-> NoError]

\* The stop case of ControlService.
StopCase(name, env) ==
    IF ~env.stop
    THEN [ops |-> <<"stop">>, waits |-> <<>>, result |-> <<>>,
          err |-> <<"failed", "to", "stop", "service">>]
    ELSE LET wait == waitForServiceState(env.stoppedAt, env.query) IN
         IF wait.err # NoError
         THEN [ops |-> <<"stop">> \o wait.ops, waits |-> <<wait.ended>>, result |-> <<>>,
               err |-> <<"service", "did", "not", "stop", "in", "time">>]
         ELSE [ops |-> <<"stop">> \o wait.ops, waits |-> <<wait.ended>>,
               result |-> <<"Service", name, "stopped", "successfully">>, err |-> NoError]

\* The restart case of ControlService: stop, wait, start, wait.
RestartCase(name, env) ==
    IF ~env.stop
    THEN [ops |-> <<"stop">>, waits |-> <<>>, result |-> <<>>,
          err |-> <<"failed", "to", "stop", "service", "for", "restart">>]
    ELSE LET stopWait == waitForServiceState(env.stoppedAt, env.query) IN
         IF stopWait.err # NoError
         THEN [ops |-> <<"stop">> \o stopWait.ops, waits |-> <<stopWait.ended>>,
               result |-> <<>>,
               err |-> <<"service", "did", "not", "stop", "for", "restart">>]
         ELSE IF ~env.start
         THEN [ops |-> <<"stop">> \o stopWait.ops \o <<"start">>,
               waits |-> <<stopWait.ended>>, result |-> <<>>,
               err |-> <<"failed", "to", "start", "service", "after", "restart">>]
         ELSE LET startWait == waitForServiceState(env.runningAt, env.query) IN
              IF startWait.err # NoError
              THEN [ops |-> <<"stop">> \o stopWait.ops \o <<"start">> \o startWait.ops,
                    waits |-> <<stopWait.ended, startWait.ended>>, result |-> <<>>,
                    err |-> <<"service", "did", "not", "start", "after", "restart">>]
              ELSE [ops |-> <<"stop">> \o stopWait.ops \o <<"start">> \o startWait.ops,
                    waits |-> <<stopWait.ended, startWait.ended>>,
                    result |-> <<"Service", name, "restarted", "successfully">>,
                    err |-> NoError]

\* ControlService(name, action, allowedServices): the whitelist check, then the
\* connection to the service manager, then the service is opened by name, and
\* only then the action is looked at.
ControlService(name, action, allowed, env) ==
    IF ~isServiceAllowed(name, allowed)
    THEN [ops |-> <<>>, waits |-> <<>>, result |-> <<>>, err |-> ErrServiceNotAllowed(name)]
    ELSE IF ~env.connect
    THEN [ops |-> <<"connect">>, waits |-> <<>>, result |-> <<>>,
          err |-> <<"failed", "to", "connect", "to", "service", "manager">>]
    ELSE IF ~env.open
    THEN [ops |-> <<"connect", "open">>, waits |-> <<>>,
          result |-> <<>>,
          err |-> <<"failed", "to", "open", "service", name>>]
    ELSE LET case == IF action = "start" THEN StartCase(name, env)
                     ELSE IF action = "stop" THEN StopCase(name, env)
                     ELSE IF action = "restart" THEN RestartCase(name, env)
                     ELSE [ops |-> <<>>, waits |-> <<>>, result |-> <<>>,
                           err |-> ErrInvalidAction(action)]
         IN  [ops |-> <<"connect", "open">> \o case.ops, waits |-> case.waits,
              result |-> case.result, err |-> case.err]

NoServiceResult == [ops |-> <<>>, waits |-> <<>>, result |-> <<>>, err |-> NoError]

\* The service names and actions of the model's requests, and its whitelists.
ServiceNames == {"App", "app", "AppX", "Spooler"}

ServiceActions == {"start", "stop", "restart", "pause", "Start", ""}

ServiceLists == { <<>>, <<"App">>, <<"Spooler", "App">> }

\* The latest poll, of those before the deadline, at which a service of the
\* model reaches the state.
MaxReachPolls == 2

\* When the service reaches the state after the request: at one of the first
\* polls, between two polls, at the deadline, or never.
ReachTimes ==
    {k * pollInterval : k \in 0..MaxReachPolls} \cup {pollInterval + 1, stateTimeout, Never}

\* Which operations of the service manager succeed, and when the service is
\* Stopped after the stop request and Running after the start request.
ServiceEnvs ==
    [connect : BOOLEAN, open : BOOLEAN, start : BOOLEAN, stop : BOOLEAN, query : BOOLEAN,
     stoppedAt : ReachTimes, runningAt : ReachTimes]

ServiceIdle ==
    /\ svcName = ""
    /\ svcAction = ""
    /\ allowedServices = <<>>
    /\ svcEnv = [connect |-> TRUE, open |-> TRUE, start |-> TRUE, stop |-> TRUE,
                 query |-> TRUE, stoppedAt |-> 0, runningAt |-> 0]
    /\ svcPc = "idle"
    /\ svcResult = NoServiceResult

InitService ==
    /\ svcName \in ServiceNames
    /\ svcAction \in ServiceActions
    /\ allowedServices \in ServiceLists
    /\ svcEnv \in ServiceEnvs
    /\ svcPc = "call"
    /\ svcResult = NoServiceResult

\* The service handler's call of ControlService.
ControlServiceCall ==
    /\ svcPc = "call"
    /\ svcResult' = ControlService(svcName, svcAction, allowedServices, svcEnv)
    /\ svcPc' = "done"
    /\ UNCHANGED <<svcName, svcAction, allowedServices, svcEnv>>
    /\ UNCHANGED ExceptService

NextService == ControlServiceCall

(***************************************************************************)
(* Claims about service control.                                           *)
(***************************************************************************)
\* C8: ControlService performs a service-manager operation only after the
\* request is authorized (the name is verbatim in allowed_services and the
\* action is start, stop or restart); a name off the whitelist gets "service
\* not in allowed list: <name>", an invalid action gets an error, and in both
\* cases no service-manager operation is performed.
C8_NoOperationBeforeAuthorization ==
    svcPc = "done" =>
        LET listed == \E i \in 1..Len(allowedServices) : allowedServices[i] = svcName
            valid  == svcAction \in {"start", "stop", "restart"}
        IN  /\ ~listed => svcResult.err = ErrServiceNotAllowed(svcName)
            /\ ~(listed /\ valid) => (svcResult.ops = <<>> /\ svcResult.err # NoError)

\* The request reaches the action switch: the name is whitelisted, the service
\* manager is connected and the service is opened.
ReachesAction ==
    /\ svcPc = "done"
    /\ isServiceAllowed(svcName, allowedServices)
    /\ svcEnv.connect /\ svcEnv.open

\* A poll before the deadline finds a service in the state that it reaches `at`
\* milliseconds after the request, the queries succeeding.
Observable(at) ==
    /\ svcEnv.query
    /\ \E k \in 0..((stateTimeout \div pollInterval) - 1) : InState(at, k * pollInterval)

\* The operations after connect and open: a stop request, queries, and then
\* possibly a start request followed by queries.
StopThenStart(ops) ==
    /\ Len(ops) >= 3 /\ ops[3] = "stop"
    /\ \A i \in 4..Len(ops) :
        \/ ops[i] = "query"
        \/ /\ ops[i] = "start"
           /\ i > 4
           /\ \A j \in 4..(i - 1) : ops[j] = "query"

\* C18: restart issues the stop request, observes Stopped within 30 s, issues the
\* start request, observes Running within 30 s, each step only if the previous
\* one succeeded, and succeeds only after Running was observed; stop succeeds
\* only after Stopped was observed; each wait polls, ends within 30 s, and fails
\* when the state was never observed.
C18_RestartStepsInOrder ==
    ReachesAction =>
        LET r == svcResult
            started == \E i \in 1..Len(r.ops) : r.ops[i] = "start"
        IN  /\ \A i \in 1..Len(r.waits) : r.waits[i] <= stateTimeout
            /\ svcAction = "restart" =>
                /\ StopThenStart(r.ops)
                /\ started =>
                    /\ Len(r.waits) >= 1
                    /\ r.waits[1] < stateTimeout
                    /\ InState(svcEnv.stoppedAt, r.waits[1])
                /\ r.err = NoError =>
                    /\ started
                    /\ Len(r.waits) = 2
                    /\ r.waits[2] < stateTimeout
                    /\ InState(svcEnv.runningAt, r.waits[2])
                    /\ r.ops[Len(r.ops)] = "query"
                /\ (svcEnv.stop /\ ~Observable(svcEnv.stoppedAt)) =>
                    r.err = <<"service", "did", "not", "stop", "for", "restart">>
                /\ (svcEnv.stop /\ Observable(svcEnv.stoppedAt) /\ svcEnv.start
                        /\ ~Observable(svcEnv.runningAt)) =>
                    r.err = <<"service", "did", "not", "start", "after", "restart">>
            /\ svcAction = "stop" =>
                /\ r.err = NoError =>
                    /\ Len(r.waits) = 1
                    /\ InState(svcEnv.stoppedAt, r.waits[1])
                    /\ r.ops[Len(r.ops)] = "query"
                /\ (svcEnv.stop /\ ~Observable(svcEnv.stoppedAt)) =>
                    r.err = <<"service", "did", "not", "stop", "in", "time">>

\* A restart that succeeded after polling more than once for each state.
C18_Witness ==
    /\ ReachesAction
    /\ svcAction = "restart"
    /\ svcResult.err = NoError
    /\ svcResult.waits = <<2 * pollInterval, pollInterval>>

(***************************************************************************)
(* The command handlers, each wrapped by handleWithRecovery.               *)
(***************************************************************************)
\* The requests in flight in the model.
Requests == {"r1", "r2"}

\* The subjects whose requests carry a payload that is decoded and then passed
\* to a gated operation of the executor.
GatedSubjects == {"service", "logs", "exec"}

\* What a request is: its subject, whether its payload decodes, and how the
\* gated operation ends ("timeout" is the exec handler's child being killed).
RequestKinds ==
    { [subject |-> "ping", decodes |-> TRUE, outcome |-> "ok"],
      [subject |-> "health", decodes |-> TRUE, outcome |-> "ok"],
      [subject |-> "exec", decodes |-> TRUE, outcome |-> "timeout"] }
    \cup { [subject |-> sub, decodes |-> FALSE, outcome |-> "error"] : sub \in GatedSubjects }
    \cup [subject : GatedSubjects, decodes : {TRUE}, outcome : {"ok", "error"}]

\* handlePing: log, respond, log.
handlePing == <<"log", "respond", "log">>

\* handleHealth: log, collect the health information, respond, log.
handleHealth == <<"log", "collect", "respond", "log">>

\* A handler that calls the executor before it looks at the decoding error.
handleGatedExecutesFirst(req) ==
    IF ~req.decodes THEN <<"log", "decode", "execute", "log", "respondInvalid", "recordError">>
    ELSE IF req.outcome # "ok"
    THEN <<"log", "decode", "log", "execute", "log", "recordError", "respond">>
    ELSE <<"log", "decode", "log", "execute", "recordSuccess", "respond", "log">>

\* handleServiceControl, handleLogFetch and handleCustomExec: a payload that
\* does not decode is answered and then recorded; a failed operation is recorded
\* and then answered; a success is recorded, answered and logged.
handleGated(req) ==
    IF ~req.decodes THEN <<"log", "decode", "log", "respondInvalid", "recordError">>
    ELSE IF req.outcome # "ok"
    THEN <<"log", "decode", "log", "execute", "log", "recordError", "respond">>
    ELSE <<"log", "decode", "log", "execute", "recordSuccess", "respond", "log">>

\* The steps of the handler SubscribeAll registers for the request's subject.
Handler(req) ==
    IF req.subject = "ping" THEN handlePing
    ELSE IF req.subject = "health" THEN handleHealth
    ELSE handleGated(req)

InvalidRequestFormat == <<"Invalid", "request", "format">>

\* respondError and the other error replies: status, error and timestamp.
errorResponse(errorMsg) ==
    [status |-> "error", error |-> errorMsg, fields |-> {"status", "error", "timestamp"}]

\* The reply a step of a handler sends.
ReplyOf(req, step) ==
    IF step = "respondInvalid" THEN errorResponse(InvalidRequestFormat)
    ELSE IF req.outcome # "ok" THEN errorResponse(<<"operation", "failed">>)
    ELSE [status |-> "success", error |-> <<>>, fields |-> {"status", "timestamp"}]

NoHandlerReply == [status |-> "none", error |-> <<>>, fields |-> {}]

\* The steps that send a reply, and those kept in a request's effects.
ReplySteps == {"respond", "respondInvalid"}

EffectSteps == ReplySteps \cup {"execute", "recordError", "recordSuccess"}

\* The position of a handler that has returned.
Returned(req) == Len(Handler(req)) + 1

HandlersIdle ==
    /\ requests = [r \in Requests |-> [subject |-> "ping", decodes |-> TRUE, outcome |-> "ok"]]
    /\ hPc = [r \in Requests |-> 0]
    /\ replies = [r \in Requests |-> 0]
    /\ hPanicked = [r \in Requests |-> FALSE]
    /\ commandsProcessed = 0
    /\ commandsErrored = 0
    /\ hEffects = [r \in Requests |-> <<>>]
    /\ hReply = [r \in Requests |-> NoHandlerReply]

InitHandlers ==
    /\ requests \in [Requests -> RequestKinds]
    /\ hPc = [r \in Requests |-> 0]
    /\ replies = [r \in Requests |-> 0]
    /\ hPanicked = [r \in Requests |-> FALSE]
    /\ commandsProcessed = 0
    /\ commandsErrored = 0
    /\ hEffects = [r \in Requests |-> <<>>]
    /\ hReply = [r \in Requests |-> NoHandlerReply]

\* The connection delivers a request to its subscription's callback.
Deliver(r) ==
    /\ hPc[r] = 0
    /\ hPc' = [hPc EXCEPT ![r] = 1]
    /\ UNCHANGED <<requests, replies, hPanicked, commandsProcessed, commandsErrored, hEffects, hReply>>
    /\ UNCHANGED ExceptHandlers

\* The handler executes its next step: msg.Respond sends a reply,
\* RecordCommandSuccess counts the command as processed, RecordCommandError as
\* processed and as failed.
HandlerStep(r) ==
    /\ hPc[r] \in 1..Len(Handler(requests[r]))
    /\ LET step == Handler(requests[r])[hPc[r]] IN
        /\ replies' = [replies EXCEPT ![r] = IF step \in ReplySteps THEN @ + 1 ELSE @]
        /\ hReply' = [hReply EXCEPT ![r] = IF step \in ReplySteps THEN ReplyOf(requests[r], step)
                                           ELSE @]
        /\ hEffects' = [hEffects EXCEPT ![r] = IF step \in EffectSteps THEN Append(@, step)
                                               ELSE @]
        /\ commandsProcessed' = IF step \in {"recordSuccess", "recordError"}
                                THEN commandsProcessed + 1
                                ELSE commandsProcessed
        /\ commandsErrored' = IF step = "recordError" THEN commandsErrored + 1
                              ELSE commandsErrored
    /\ hPc' = [hPc EXCEPT ![r] = @ + 1]
    /\ UNCHANGED <<requests, hPanicked>>
    /\ UNCHANGED ExceptHandlers

\* The handler's next step panics: the deferred function of handleWithRecovery
\* recovers, logs and sends an error reply, and the callback returns.
RecoverPanic(r) ==
    /\ hPc[r] \in 1..Len(Handler(requests[r]))
    /\ ~hPanicked[r]
    /\ hPanicked' = [hPanicked EXCEPT ![r] = TRUE]
    /\ replies' = [replies EXCEPT ![r] = @ + 1]
    /\ hReply' = [hReply EXCEPT ![r] = errorResponse(<<"Internal", "error">>)]
    /\ hEffects' = [hEffects EXCEPT ![r] = Append(@, "respond")]
    /\ hPc' = [hPc EXCEPT ![r] = Returned(requests[r])]
    /\ UNCHANGED <<requests, commandsProcessed, commandsErrored>>
    /\ UNCHANGED ExceptHandlers

NextHandlers == \E r \in Requests : Deliver(r) \/ HandlerStep(r) \/ RecoverPanic(r)

(***************************************************************************)
(* Claims about the command handlers.                                      *)
(***************************************************************************)
\* C1: every request delivered on a command subject gets exactly one reply,
\* never zero and never two, on every path of its handler: success, gate error,
\* decode error, exec timeout, and a panic at any point of the handler, before
\* or after the handler has itself responded.
C1_ExactlyOneReply ==
    \A r \in Requests :
        /\ replies[r] <= 1
        /\ hPc[r] = Returned(requests[r]) => replies[r] = 1

\* The number of steps of one kind among a request's effects.
EffectCount(r, step) == Cardinality({i \in 1..Len(hEffects[r]) : hEffects[r][i] = step})

\* The handler of an undecodable request has run to its end.
InvalidHandled(r) ==
    /\ ~requests[r].decodes
    /\ ~hPanicked[r]
    /\ hPc[r] = Returned(requests[r])

\* C23: on the service, logs and exec subjects a payload that does not decode
\* is answered with {status "error", error "Invalid request format",
\* timestamp}, one command error is recorded for it, and the executor (gate,
\* probe, service manager, file read, subprocess) is never called for it.
C23_DecodeErrorAnsweredWithoutWork ==
    /\ \A r \in Requests :
        /\ ~requests[r].decodes => EffectCount(r, "execute") = 0
        /\ InvalidHandled(r) =>
            /\ requests[r].subject \in GatedSubjects
            /\ replies[r] = 1
            /\ hReply[r] = errorResponse(InvalidRequestFormat)
            /\ EffectCount(r, "recordError") = 1
            /\ EffectCount(r, "recordSuccess") = 0
    /\ commandsErrored =
            EffectCount("r1", "recordError") + EffectCount("r2", "recordError")

C23_Witness ==
    /\ InvalidHandled("r1")
    /\ requests["r1"].subject = "logs"
    /\ hReply["r1"] = errorResponse(InvalidRequestFormat)
    /\ commandsErrored >= 1

\* C33: on the service, logs and exec subjects every request that has received
\* a reply and whose handler has returned has changed the command statistics
\* exactly once: one Record call, which is RecordCommandError if and only if
\* the reply has status "error"; on every replying path, the error reply of the
\* panic barrier included.
C33_ReplyRecordedOnce ==
    \A r \in Requests :
        (/\ requests[r].subject \in GatedSubjects
         /\ hPc[r] = Returned(requests[r])
         /\ replies[r] >= 1) =>
            /\ EffectCount(r, "recordError") + EffectCount(r, "recordSuccess") = 1
            /\ EffectCount(r, "recordError") = 1 <=> hReply[r].status = "error"

(***************************************************************************)
(* Telemetry publish: PublishTelemetry over the JetStream context.         *)
(***************************************************************************)
\* The attempts of the older client's PublishTelemetry.
maxRetries == 3

\* Its delay between attempts, in seconds, multiplied by the attempt's number.
retryDelay == 1

\* The subjects the scheduler's tasks publish on.
TelemetrySubjects == {"heartbeat", "telemetry.system", "telemetry.service", "telemetry.inventory"}

ErrPublishFailed(subject) == <<"failed", "to", "publish", "to", subject>>

\* Where PublishTelemetry goes after js.Publish returned an error: client.go
\* returns the error; the older client sleeps and tries again until its last
\* attempt.
AfterPublishError(variant, attempt) ==
    IF variant = "retrying" /\ attempt < maxRetries THEN "sleeping" ELSE "returned"

PublishIdle ==
    /\ pubVariant = "single"
    /\ pubSubject = "heartbeat"
    /\ busMode = "acking"
    /\ pubPc = "idle"
    /\ pubAttempt = 1
    /\ pubErr = NoError
    /\ pubEnqueued = 0
    /\ pubAckWaits = 0
    /\ pubSlept = 0

\* A task calls PublishTelemetry.
InitPublish ==
    /\ pubVariant \in {"single", "retrying"}
    /\ pubSubject \in TelemetrySubjects
    /\ busMode \in {"acking", "stalled", "closed"}
    /\ pubPc = "call"
    /\ pubAttempt = 1
    /\ pubErr = NoError
    /\ pubEnqueued = 0
    /\ pubAckWaits = 0
    /\ pubSlept = 0

\* js.Publish, first half: the message is handed to the connection, which fails
\* when the connection is closed; then the call waits for the stream's
\* acknowledgment.
JsPublishSend ==
    /\ pubPc = "call"
    /\ IF busMode = "closed"
       THEN /\ pubPc' = AfterPublishError(pubVariant, pubAttempt)
            /\ pubErr' = ErrPublishFailed(pubSubject)
            /\ UNCHANGED <<pubEnqueued, pubAckWaits>>
       ELSE /\ pubPc' = "awaitAck"
            /\ pubEnqueued' = pubEnqueued + 1
            /\ pubAckWaits' = pubAckWaits + 1
            /\ UNCHANGED pubErr
    /\ UNCHANGED <<pubVariant, pubSubject, busMode, pubAttempt, pubSlept>>
    /\ UNCHANGED ExceptPublish

\* js.Publish, second half: the acknowledgment arrives and PublishTelemetry
\* returns nil.
JsPublishAcked ==
    /\ pubPc = "awaitAck"
    /\ busMode = "acking"
    /\ pubPc' = "returned"
    /\ pubErr' = NoError
    /\ UNCHANGED <<pubVariant, pubSubject, busMode, pubAttempt, pubEnqueued, pubAckWaits, pubSlept>>
    /\ UNCHANGED ExceptPublish

\* js.Publish, second half: no acknowledgment arrives within the context's
\* wait and js.Publish returns an error.
JsPublishTimeout ==
    /\ pubPc = "awaitAck"
    /\ busMode # "acking"
    /\ pubPc' = AfterPublishError(pubVariant, pubAttempt)
    /\ pubErr' = ErrPublishFailed(pubSubject)
    /\ UNCHANGED <<pubVariant, pubSubject, busMode, pubAttempt, pubEnqueued, pubAckWaits, pubSlept>>
    /\ UNCHANGED ExceptPublish

\* The older client's time.Sleep(retryDelay * attempt) ends and the next
\* attempt begins.
RetrySleepEnds ==
    /\ pubPc = "sleeping"
    /\ pubSlept' = pubSlept + retryDelay * pubAttempt
    /\ pubAttempt' = pubAttempt + 1
    /\ pubPc' = "call"
    /\ UNCHANGED <<pubVariant, pubSubject, busMode, pubErr, pubEnqueued, pubAckWaits>>
    /\ UNCHANGED ExceptPublish

\* The bus stalls, recovers, or the connection closes, while a call is in
\* progress.
BusChanges ==
    /\ pubPc \in {"call", "awaitAck", "sleeping"}
    /\ busMode' \in {"acking", "stalled", "closed"} \ {busMode}
    /\ UNCHANGED <<pubVariant, pubSubject, pubPc, pubAttempt, pubErr, pubEnqueued, pubAckWaits, pubSlept>>
    /\ UNCHANGED ExceptPublish

NextPublish ==
    \/ JsPublishSend
    \/ JsPublishAcked
    \/ JsPublishTimeout
    \/ RetrySleepEnds
    \/ BusChanges

(***************************************************************************)
(* Claims about the telemetry publish.                                     *)
(***************************************************************************)
\* C9: PublishTelemetry returns as soon as the message is enqueued: it never
\* waits for the stream's acknowledgment, never sleeps and never retries, and
\* the only error it returns is that the message could not be enqueued.
C9_ReturnsOnEnqueue ==
    /\ pubPc \notin {"awaitAck", "sleeping"}
    /\ pubAckWaits = 0
    /\ pubSlept = 0
    /\ pubAttempt = 1
    /\ (pubPc = "returned" /\ pubErr # NoError) => pubEnqueued = 0

(***************************************************************************)
(* The scheduler: the periodic tasks and their panic barrier.              *)
(***************************************************************************)
\* The tasks scheduleTasks registers a job for.
Tasks == {"heartbeat", "metrics", "service_check", "inventory"}

\* A task's invocations in progress at one time, at most.
MaxRunning == 2

\* A task wrapper with no deferred recover: the panic leaves the goroutine and
\* ends the process.
wrapTaskWithoutRecovery(taskPanics) == IF taskPanics THEN "crashed" ELSE "returned"

\* wrapTaskWithRecovery: the deferred function recovers the task's panic and
\* logs it; the wrapped function returns either way.
wrapTaskWithRecovery(taskPanics) == IF taskPanics THEN "recovered" ELSE "returned"

SchedulerIdle ==
    /\ processAlive = TRUE
    /\ schedState = "idle"
    /\ enabledTasks = {}
    /\ running = [t \in Tasks |-> 0]
    /\ panicked = [t \in Tasks |-> FALSE]
    /\ firedAfterPanic = [t \in Tasks |-> FALSE]
    /\ startupRun = "none"

\* After New: scheduleTasks has registered a job for each enabled task and has
\* started the inventory_startup goroutine when the inventory is enabled.
InitScheduler ==
    /\ processAlive = TRUE
    /\ schedState = "created"
    /\ enabledTasks \in SUBSET Tasks
    /\ running = [t \in Tasks |-> 0]
    /\ panicked = [t \in Tasks |-> FALSE]
    /\ firedAfterPanic = [t \in Tasks |-> FALSE]
    /\ startupRun = IF "inventory" \in enabledTasks THEN "running" ELSE "none"

\* Start: the dispatcher begins to fire the jobs.
Start ==
    /\ processAlive
    /\ schedState = "created"
    /\ schedState' = "started"
    /\ UNCHANGED <<processAlive, enabledTasks, running, panicked, firedAfterPanic, startupRun>>
    /\ UNCHANGED ExceptScheduler

\* A tick of a job: the dispatcher runs the wrapped task in a goroutine of its
\* own.
Tick(t) ==
    /\ processAlive
    /\ schedState = "started"
    /\ t \in enabledTasks
    /\ running[t] < MaxRunning
    /\ running' = [running EXCEPT ![t] = @ + 1]
    /\ firedAfterPanic' = [firedAfterPanic EXCEPT ![t] = @ \/ panicked[t]]
    /\ UNCHANGED <<processAlive, schedState, enabledTasks, panicked, startupRun>>
    /\ UNCHANGED ExceptScheduler

\* An invocation of a task ends: its action returns or panics inside the
\* wrapper.
TaskEnds(t) ==
    /\ processAlive
    /\ running[t] > 0
    /\ \E taskPanics \in BOOLEAN :
        /\ processAlive' = (wrapTaskWithRecovery(taskPanics) # "crashed")
        /\ panicked' = [panicked EXCEPT ![t] = @ \/ taskPanics]
    /\ running' = [running EXCEPT ![t] = @ - 1]
    /\ UNCHANGED <<schedState, enabledTasks, firedAfterPanic, startupRun>>
    /\ UNCHANGED ExceptScheduler

\* The inventory_startup goroutine ends: the inventory returns or panics inside
\* the wrapper.
StartupEnds ==
    /\ processAlive
    /\ startupRun = "running"
    /\ \E taskPanics \in BOOLEAN :
        /\ processAlive' = (wrapTaskWithRecovery(taskPanics) # "crashed")
        /\ startupRun' = IF taskPanics THEN "panicked" ELSE "returned"
    /\ UNCHANGED <<schedState, enabledTasks, running, panicked, firedAfterPanic>>
    /\ UNCHANGED ExceptScheduler

NextScheduler ==
    \/ Start
    \/ StartupEnds
    \/ \E t \in Tasks : Tick(t) \/ TaskEnds(t)

(***************************************************************************)
(* Claims about the scheduler.                                             *)
(***************************************************************************)
\* C10: a panic inside the action of a scheduled task (heartbeat, metrics,
\* service_check, inventory, inventory_startup) is caught by the task's
\* barrier: the process and the dispatcher keep running, and every task, the
\* one that panicked among them, is fired at its next tick.
C10_PanicIsContained ==
    ((\E t \in Tasks : panicked[t]) \/ startupRun = "panicked") =>
        /\ processAlive
        /\ schedState \in {"created", "started"}
        /\ \A t \in enabledTasks :
              (schedState = "started" /\ running[t] < MaxRunning) => ENABLED Tick(t)
        /\ schedState = "created" => ENABLED Start

\* A task has panicked, the process is alive, and the task has been fired again
\* while another task is running.
C10_Witness ==
    /\ panicked["heartbeat"]
    /\ firedAfterPanic["heartbeat"]
    /\ running["heartbeat"] > 0
    /\ running["metrics"] > 0
    /\ startupRun = "panicked"
    /\ processAlive

\* C11: at most one instance of a scheduled task executes at any time; a tick
\* that fires while the previous run is still executing starts nothing.
C11_OneInstancePerTask == \A t \in Tasks : running[t] <= 1

\* The flows that are executing a task's publish function (publishHeartbeat,
\* publishMetrics, publishServiceStatus, publishInventory), each of which ends
\* in PublishTelemetry on the task's subject: the invocations the dispatcher
\* has started and, for the inventory, the inventory_startup goroutine.
Writers(t) ==
    running[t] + (IF t = "inventory" /\ startupRun = "running" THEN 1 ELSE 0)

\* C24: each telemetry subject has a single writer, so that its messages reach
\* the bus in the order the scheduler issued them: at no time are two flows
\* publishing to the same subject, the inventory subject of the priming run and
\* the periodic task included.
C24_SingleWriterPerSubject == \A t \in Tasks : Writers(t) <= 1

(***************************************************************************)
(* The metrics scrape: ScrapeMetrics, parsePrometheusMetrics and the       *)
(* package's cache of the last counters.                                   *)
(***************************************************************************)
\* The largest value of a CPU counter in a sample.
MaxCounter == 4

\* The scrapes of the model: the scheduler's ticks of the metrics job (and the
\* baseline scrape) call ScrapeMetrics, each in its goroutine.
Scrapes == {1, 2}

\* The fields of metricsCache.
CacheFields ==
    {"lastCPUTotal", "lastCPUIdle", "lastDiskReadBytes", "lastDiskWriteBytes", "lastTimestamp"}

\* What windows_cpu_time_total sums to in a sample: all modes, and the idle mode;
\* and whether the sample has the CPU family and the two disk byte counters of
\* volume C:.  These samples have them all.
Samples ==
    { c \in [total : 0..MaxCounter, idle : 0..MaxCounter,
             cpuFamily : {TRUE}, readFamily : {TRUE}, writeFamily : {TRUE}] : c.idle <= c.total }

\* Samples in which a family may be absent; an absent CPU family sums to nothing.
SparseSamples ==
    { c \in [total : 0..MaxCounter, idle : 0..MaxCounter,
             cpuFamily : BOOLEAN, readFamily : BOOLEAN, writeFamily : BOOLEAN] :
        /\ c.idle <= c.total
        /\ ~c.cpuFamily => c.total = 0 }

\* The disk byte counters (read and write) of the sample of scrape s.
DiskBytes(s) == s

\* var cache = &metricsCache{}: every field is zero.
EmptyCache == [f \in CacheFields |-> 0]

NoReport == [cpu |-> 0, cpuFound |-> FALSE, now |-> 0, diskRead |-> 0, diskWrite |-> 0]

\* utils.Round of the quotient num / den (den > 0), in hundredths: the nearest
\* hundredth, a half away from zero.
Round(num, den) ==
    IF num >= 0 THEN (200 * num + den) \div (2 * den)
    ELSE -((200 * (-num) + den) \div (2 * den))

\* A CPU block that calculates the usage from whatever the cache holds.
CPUUsageFromAnyCache(c, sample) ==
    LET totalDelta == sample.total - c.lastCPUTotal
        idleDelta  == sample.idle - c.lastCPUIdle
    IN  IF totalDelta > 0
        THEN [cpu |-> Round(100 * totalDelta - 100 * idleDelta, totalDelta), cpuFound |-> TRUE]
        ELSE [cpu |-> 0, cpuFound |-> FALSE]

\* The CPU block of parsePrometheusMetrics: the usage is calculated only when the
\* cache has a timestamp, the sample's total is positive and the cached total
\* is positive, and the total has advanced; otherwise the field stays 0.
CPUUsagePercent(c, sample) ==
    LET totalDelta == sample.total - c.lastCPUTotal
        idleDelta  == sample.idle - c.lastCPUIdle
    IN  IF c.lastTimestamp # 0 /\ sample.total > 0 /\ c.lastCPUTotal > 0 /\ totalDelta > 0
        THEN [cpu |-> Round(100 * totalDelta - 100 * idleDelta, totalDelta), cpuFound |-> TRUE]
        ELSE [cpu |-> 0, cpuFound |-> FALSE]

\* The fields of the cache the CPU block reads: the conditions short-circuit.
CPUReads(c, sample) ==
    {"lastTimestamp"}
    \cup (IF c.lastTimestamp # 0 /\ sample.total > 0 THEN {"lastCPUTotal"} ELSE {})
    \cup (IF c.lastTimestamp # 0 /\ sample.total > 0 /\ c.lastCPUTotal > 0
          THEN {"lastCPUIdle"} ELSE {})

\* The disk block's rate for one counter, in hundredths of a byte per second:
\* calculated only when the cached counter is positive.
DiskBytesPerSec(last, current, timeDelta) ==
    IF last > 0 THEN Round(current - last, timeDelta) ELSE 0

\* The fields of the cache the disk block of scrape s reads at the time now.
DiskReads(c, sample, now) ==
    {"lastTimestamp"}
    \cup (IF c.lastTimestamp # 0 /\ now - c.lastTimestamp > 0 /\ sample.readFamily
          THEN {"lastDiskReadBytes"} ELSE {})
    \cup (IF c.lastTimestamp # 0 /\ now - c.lastTimestamp > 0 /\ sample.writeFamily
          THEN {"lastDiskWriteBytes"} ELSE {})

MetricsIdle ==
    /\ samples = [s \in Scrapes |-> [total |-> 0, idle |-> 0, cpuFamily |-> TRUE,
                                      readFamily |-> TRUE, writeFamily |-> TRUE]]
    /\ scrapePc = [s \in Scrapes |-> "idle"]
    /\ cache = EmptyCache
    /\ cacheWriter = [f \in CacheFields |-> 0]
    /\ observed = [s \in Scrapes |-> {}]
    /\ report = [s \in Scrapes |-> NoReport]
    /\ clock = 0

\* The agent has started; the exporter will answer each scrape with a sample.
InitMetrics ==
    /\ samples \in [Scrapes -> Samples]
    /\ scrapePc = [s \in Scrapes |-> "idle"]
    /\ cache = EmptyCache
    /\ cacheWriter = [f \in CacheFields |-> 0]
    /\ observed = [s \in Scrapes |-> {}]
    /\ report = [s \in Scrapes |-> NoReport]
    /\ clock = 0

\* As InitMetrics, with samples in which a family may be absent.
InitCache ==
    /\ samples \in [Scrapes -> SparseSamples]
    /\ scrapePc = [s \in Scrapes |-> "idle"]
    /\ cache = EmptyCache
    /\ cacheWriter = [f \in CacheFields |-> 0]
    /\ observed = [s \in Scrapes |-> {}]
    /\ report = [s \in Scrapes |-> NoReport]
    /\ clock = 0

\* A flow calls ScrapeMetrics.
ScrapeBegins(s) ==
    /\ scrapePc[s] = "idle"
    /\ scrapePc' = [scrapePc EXCEPT ![s] = "fetch"]
    /\ UNCHANGED <<samples, cache, cacheWriter, observed, report, clock>>
    /\ UNCHANGED ExceptMetrics

\* http.Get and the decoding of the metric families: on an error or a status
\* other than 200 ScrapeMetrics returns the error and the cache is untouched.
Fetch(s) ==
    /\ scrapePc[s] = "fetch"
    /\ \E ok \in BOOLEAN : scrapePc' = [scrapePc EXCEPT ![s] = IF ok THEN "cpu" ELSE "failed"]
    /\ UNCHANGED <<samples, cache, cacheWriter, observed, report, clock>>
    /\ UNCHANGED ExceptMetrics

\* The CPU block, entered when the sample has the windows_cpu_time_total
\* family: the usage is calculated from the cache, then lastCPUTotal and
\* lastCPUIdle are stored.  No lock is taken.
CpuStep(s) ==
    /\ scrapePc[s] = "cpu"
    /\ IF samples[s].cpuFamily
       THEN /\ LET usage == CPUUsagePercent(cache, samples[s]) IN
                report' = [report EXCEPT ![s].cpu = usage.cpu, ![s].cpuFound = usage.cpuFound]
            /\ observed' = [observed EXCEPT
                    ![s] = @ \cup { cacheWriter[f] : f \in CPUReads(cache, samples[s]) }]
            /\ cache' = [cache EXCEPT !.lastCPUTotal = samples[s].total,
                                      !.lastCPUIdle = samples[s].idle]
            /\ cacheWriter' = [cacheWriter EXCEPT !.lastCPUTotal = s, !.lastCPUIdle = s]
       ELSE UNCHANGED <<report, observed, cache, cacheWriter>>
    /\ scrapePc' = [scrapePc EXCEPT ![s] = "disk"]
    /\ UNCHANGED <<samples, clock>>
    /\ UNCHANGED ExceptMetrics

\* The disk block: now := time.Now(); with a cached timestamp and time advanced,
\* each counter the sample has gives its rate and is stored; on the first
\* scrape each counter the sample has is stored.  No lock is taken.
DiskStep(s) ==
    /\ scrapePc[s] = "disk"
    /\ clock' = clock + 1
    /\ LET now       == clock + 1
           first     == cache.lastTimestamp = 0
           timeDelta == now - cache.lastTimestamp
           rates     == ~first /\ timeDelta > 0
           reads     == (first \/ timeDelta > 0) /\ samples[s].readFamily
           writes    == (first \/ timeDelta > 0) /\ samples[s].writeFamily
       IN
        /\ report' = [report EXCEPT
                ![s].now = now,
                ![s].diskRead = IF rates /\ samples[s].readFamily
                                THEN DiskBytesPerSec(cache.lastDiskReadBytes, DiskBytes(s),
                                                     timeDelta)
                                ELSE 0,
                ![s].diskWrite = IF rates /\ samples[s].writeFamily
                                 THEN DiskBytesPerSec(cache.lastDiskWriteBytes, DiskBytes(s),
                                                      timeDelta)
                                 ELSE 0]
        /\ observed' = [observed EXCEPT
                ![s] = @ \cup { cacheWriter[f] : f \in DiskReads(cache, samples[s], now) }]
        /\ cache' = [cache EXCEPT !.lastDiskReadBytes = IF reads THEN DiskBytes(s) ELSE @,
                                  !.lastDiskWriteBytes = IF writes THEN DiskBytes(s) ELSE @]
        /\ cacheWriter' = [cacheWriter EXCEPT !.lastDiskReadBytes = IF reads THEN s ELSE @,
                                              !.lastDiskWriteBytes = IF writes THEN s ELSE @]
    /\ scrapePc' = [scrapePc EXCEPT ![s] = "stamp"]
    /\ UNCHANGED samples
    /\ UNCHANGED ExceptMetrics

\* cache.lastTimestamp = now, and parsePrometheusMetrics returns the metrics.
StampStep(s) ==
    /\ scrapePc[s] = "stamp"
    /\ cache' = [cache EXCEPT !.lastTimestamp = report[s].now]
    /\ cacheWriter' = [cacheWriter EXCEPT !.lastTimestamp = s]
    /\ scrapePc' = [scrapePc EXCEPT ![s] = "done"]
    /\ UNCHANGED <<samples, observed, report, clock>>
    /\ UNCHANGED ExceptMetrics

\* A step of a scrape.
ScrapeStep(s) == ScrapeBegins(s) \/ Fetch(s) \/ CpuStep(s) \/ DiskStep(s) \/ StampStep(s)

\* Scrapes of overlapping ticks interleave.
NextMetrics == \E s \in Scrapes : ScrapeStep(s)

\* Consecutive scrapes: a scrape begins when the one before it has returned.
NextConsecutive ==
    \E s \in Scrapes :
        /\ \A r \in Scrapes : r < s => scrapePc[r] \in {"done", "failed"}
        /\ ScrapeStep(s)

(***************************************************************************)
(* Claims about the metrics scrape.                                        *)
(***************************************************************************)
\* C12: every read and write of the cache during a scrape happens under the
\* cache's mutex, so a flow that interleaves with a scrape sees all five fields
\* as they were before that scrape or all five as they are after it, never a
\* mixture.
C12_CacheSnapshotsAreWhole ==
    \A s \in Scrapes : Cardinality(observed[s]) <= 1

\* C17: for two consecutive successful scrapes with counters (total1, idle1) and
\* (total2, idle2), total2 > total1, the second reports cpu_usage_percent =
\* round(100 * (1 - (idle2 - idle1) / (total2 - total1)), 2), for every value of
\* the first scrape's counters, total1 = 0 included.
C17_CpuUsageFromDeltas ==
    (scrapePc[1] = "done" /\ scrapePc[2] = "done" /\ samples[2].total > samples[1].total) =>
        LET dt    == samples[2].total - samples[1].total
            di    == samples[2].idle - samples[1].idle
            exact == 10000 * (dt - di)
            diff  == report[2].cpu * dt - exact
        IN  2 * (IF diff < 0 THEN -diff ELSE diff) <= dt

\* No scrape is in progress.
Quiescent == \A s \in Scrapes : scrapePc[s] \in {"idle", "done", "failed"}

\* C29: between scrapes the metrics cache is either empty (lastTimestamp zero)
\* or its four counters and lastTimestamp were all written by the same scrape;
\* no sequence of scrapes, a scrape whose sample lacks a family or has a zero
\* counter included, leaves lastTimestamp from one scrape next to counters
\* from an earlier one.
C29_CacheFromOneScrape ==
    Quiescent =>
        \/ cache = EmptyCache
        \/ /\ cacheWriter["lastTimestamp"] # 0
           /\ \A f \in CacheFields : cacheWriter[f] = cacheWriter["lastTimestamp"]

\* Scrape s has returned and is the only scrape to have got a sample: it
\* found the cache empty.
FirstScrapeDone(s) ==
    /\ scrapePc[s] = "done"
    /\ \A r \in Scrapes \ {s} : scrapePc[r] \in {"idle", "failed"}

\* C30: a scrape made with an empty cache stores as the baseline the CPU total
\* and idle sums and the disk read and write byte counters that its sample
\* has, together with the scrape time, and returns cpu_usage_percent,
\* disk_read_bytes_per_sec and disk_write_bytes_per_sec all 0.
C30_FirstScrapeStoresBaseline ==
    \A s \in Scrapes :
        FirstScrapeDone(s) =>
            /\ report[s].cpu = 0
            /\ report[s].diskRead = 0
            /\ report[s].diskWrite = 0
            /\ cache.lastTimestamp = report[s].now
            /\ report[s].now > 0
            /\ samples[s].cpuFamily =>
                    /\ cache.lastCPUTotal = samples[s].total
                    /\ cache.lastCPUIdle = samples[s].idle
            /\ samples[s].readFamily => cache.lastDiskReadBytes = DiskBytes(s)
            /\ samples[s].writeFamily => cache.lastDiskWriteBytes = DiskBytes(s)

\* The second scrape found the cache empty, with a sample of all families.
C30_Witness ==
    /\ scrapePc[1] = "failed"
    /\ FirstScrapeDone(2)
    /\ samples[2] = [total |-> 4, idle |-> 1, cpuFamily |-> TRUE, readFamily |-> TRUE,
                     writeFamily |-> TRUE]
    /\ cache = [lastCPUTotal |-> 4, lastCPUIdle |-> 1, lastDiskReadBytes |-> 2,
                lastDiskWriteBytes |-> 2, lastTimestamp |-> 1]

\* The values of a returned sample make sense: cpu_usage_percent within
\* [0, 100] (in hundredths) and no negative disk rate.
Sensible(r) ==
    /\ 0 <= r.cpu /\ r.cpu <= 10000
    /\ r.diskRead >= 0
    /\ r.diskWrite >= 0

\* C31: a scrape other than the first pass whose extracted values are
\* nonsensical (cpu_usage_percent outside [0, 100], a negative disk rate)
\* returns an error, so every sample ScrapeMetrics returns for publishing has
\* sensible values, also when a counter decreased between two scrapes.
C31_NonsenseRejected ==
    \A s \in Scrapes : scrapePc[s] = "done" => Sensible(report[s])

(***************************************************************************)
(* Connection drain: Client.Drain(timeout) and Client.Close.               *)
(*                                                                         *)
(* Drain starts c.conn.Drain() in a goroutine of its own and waits in a    *)
(* select for the goroutine's signal or for time.After(timeout).  Time is  *)
(* counted in ticks since the call; it passes only while the select is     *)
(* blocked.  c.conn.Drain() is a call of the connection library: it        *)
(* returns at any time, with nil or with an error, and with an error on a  *)
(* closed connection.                                                      *)
(***************************************************************************)
DrainVariants == {"plain", "checked"}

\* The longest timeout, the latest tick, and the calls of Drain.
MaxTimeout == 2
MaxElapsed == 3
MaxDrainCalls == 2

ErrDrainTimeout == "timeout"

\* A select that waits for the goroutine's signal only.
SelectWithoutTimer(done, waited, timeout) == IF done THEN {"drainDone"} ELSE {}

\* The cases of Drain's select that can proceed: the goroutine has signalled on
\* drainDone, the timer of time.After(timeout) has fired.
SelectReady(done, waited, timeout) ==
    (IF done THEN {"drainDone"} ELSE {}) \cup (IF waited >= timeout THEN {"timer"} ELSE {})

\* The closed check of the "checked" client: !IsConnected() && IsClosed().
AlreadyClosed(variant, status) ==
    variant = "checked" /\ status # "connected" /\ status = "closed"

\* What Drain returns when the goroutine's signal is received: the "plain"
\* client logs the error of c.conn.Drain() and returns nil, the "checked" one
\* returns it.
DrainDoneResult(variant, connErr) ==
    IF variant = "checked" /\ connErr = "err" THEN "err" ELSE "nil"

DrainIdle ==
    /\ drainVariant = "plain"
    /\ drainTimeout = 1
    /\ connStatus = "connected"
    /\ drainPc = "idle"
    /\ connDrainPc = "none"
    /\ elapsed = 0
    /\ drainResult = "none"
    /\ drainCalls = 0
    /\ callOps = <<>>
    /\ closedAtCall = FALSE
    /\ doneAt = -1

\* A connected client, and the timeout its caller passes.
InitDrain ==
    /\ drainVariant \in DrainVariants
    /\ drainTimeout \in 1..MaxTimeout
    /\ connStatus = "connected"
    /\ drainPc = "idle"
    /\ connDrainPc = "none"
    /\ elapsed = 0
    /\ drainResult = "none"
    /\ drainCalls = 0
    /\ callOps = <<>>
    /\ closedAtCall = FALSE
    /\ doneAt = -1

\* Drain is called: up to its select.  The "checked" client returns nil on a
\* closed connection; otherwise the goroutine with c.conn.Drain() is started.
\* A goroutine of an earlier call that is still in c.conn.Drain() is out of the
\* picture from here on: its signal goes to the earlier call's channel.
DrainCalled ==
    /\ drainPc \in {"idle", "returned"}
    /\ drainCalls < MaxDrainCalls
    /\ drainCalls' = drainCalls + 1
    /\ closedAtCall' = (connStatus = "closed")
    /\ elapsed' = 0
    /\ doneAt' = -1
    /\ IF AlreadyClosed(drainVariant, connStatus)
       THEN /\ drainPc' = "returned"
            /\ drainResult' = "nil"
            /\ connDrainPc' = "none"
            /\ callOps' = <<>>
            /\ UNCHANGED connStatus
       ELSE /\ drainPc' = "select"
            /\ drainResult' = "none"
            /\ connDrainPc' = "running"
            /\ callOps' = <<"conn.Drain">>
            /\ connStatus' = IF connStatus = "connected" THEN "draining" ELSE connStatus
    /\ UNCHANGED <<drainVariant, drainTimeout>>

DrainCall == DrainCalled /\ UNCHANGED ExceptDrain

\* c.conn.Drain() returns in the goroutine, which signals on drainDone.
ConnDrainReturns ==
    /\ connDrainPc = "running"
    /\ \E ret \in IF connStatus = "closed" THEN {"err"} ELSE {"nil", "err"} :
        /\ connDrainPc' = ret
        /\ \E after \in IF ret = "nil" THEN {"draining", "closed"} ELSE {connStatus} :
            connStatus' = after
    /\ doneAt' = IF drainPc = "select" THEN elapsed ELSE doneAt
    /\ UNCHANGED <<drainVariant, drainTimeout, drainPc, elapsed, drainResult, drainCalls,
                   callOps, closedAtCall>>
    /\ UNCHANGED ExceptDrain

\* The connection finishes the drain that c.conn.Drain() began, and closes.
ConnDrained ==
    /\ connStatus = "draining"
    /\ connDrainPc \in {"none", "nil"}
    /\ connStatus' = "closed"
    /\ UNCHANGED <<drainVariant, drainTimeout, drainPc, connDrainPc, elapsed, drainResult,
                   drainCalls, callOps, closedAtCall, doneAt>>
    /\ UNCHANGED ExceptDrain

\* A tick passes while the select is blocked.
TimePasses ==
    /\ drainPc = "select"
    /\ SelectReady(connDrainPc \in {"nil", "err"}, elapsed, drainTimeout) = {}
    /\ elapsed < MaxElapsed
    /\ elapsed' = elapsed + 1
    /\ UNCHANGED <<drainVariant, drainTimeout, connStatus, drainPc, connDrainPc, drainResult,
                   drainCalls, callOps, closedAtCall, doneAt>>
    /\ UNCHANGED ExceptDrain

\* case <-drainDone: Drain returns.
SelectDrainDone ==
    /\ drainPc = "select"
    /\ "drainDone" \in SelectReady(connDrainPc \in {"nil", "err"}, elapsed, drainTimeout)
    /\ drainPc' = "returned"
    /\ drainResult' = DrainDoneResult(drainVariant, connDrainPc)
    /\ UNCHANGED <<drainVariant, drainTimeout, connStatus, connDrainPc, elapsed, drainCalls,
                   callOps, closedAtCall, doneAt>>
    /\ UNCHANGED ExceptDrain

\* case <-time.After(timeout): c.conn.Close(), and Drain returns the error.
SelectTimeout ==
    /\ drainPc = "select"
    /\ "timer" \in SelectReady(connDrainPc \in {"nil", "err"}, elapsed, drainTimeout)
    /\ drainPc' = "returned"
    /\ drainResult' = ErrDrainTimeout
    /\ callOps' = Append(callOps, "conn.Close")
    /\ connStatus' = "closed"
    /\ UNCHANGED <<drainVariant, drainTimeout, connDrainPc, elapsed, drainCalls, closedAtCall,
                   doneAt>>
    /\ UNCHANGED ExceptDrain

\* Client.Close, between two calls of Drain.
CloseCall ==
    /\ drainPc \in {"idle", "returned"}
    /\ connStatus # "closed"
    /\ connStatus' = "closed"
    /\ UNCHANGED <<drainVariant, drainTimeout, drainPc, connDrainPc, elapsed, drainResult,
                   drainCalls, callOps, closedAtCall, doneAt>>
    /\ UNCHANGED ExceptDrain

DrainSteps ==
    \/ ConnDrainReturns
    \/ ConnDrained
    \/ TimePasses
    \/ SelectDrainDone
    \/ SelectTimeout

NextDrain ==
    \/ DrainCall
    \/ CloseCall
    \/ DrainSteps

\* A call of Drain that started the underlying drain has returned.
DrainReturned == drainPc = "returned" /\ callOps # <<>>

C16_DrainIdempotentWhenClosed ==
    (drainPc = "returned" /\ closedAtCall) =>
        /\ drainResult = "nil"
        /\ callOps = <<>>
        /\ elapsed = 0

(***************************************************************************)
(* Agent lifecycle: Agent.Run starts the scheduler and waits for the       *)
(* signal; Agent.Shutdown calls Scheduler.Shutdown, logs its error, and    *)
(* calls Client.Drain.  The scheduled tasks run in goroutines the          *)
(* scheduler library starts; the inventory_startup goroutine is started by *)
(* scheduleTasks with a go statement and is not a job of the library.      *)
(* Scheduler.Shutdown returns the library's Shutdown(): nil when the jobs  *)
(* in progress have ended, an error when its wait for them has timed out.  *)
(***************************************************************************)
Flows == {"task", "inventory_startup"}

\* Invocations of the scheduled tasks in progress at one time, at most.
MaxJobs == 2

\* The flows in progress.
Executing(jobs, priming) ==
    (IF jobs > 0 THEN {"task"} ELSE {}) \cup (IF priming = "running" THEN {"inventory_startup"} ELSE {})

LifecycleIdle ==
    /\ agentPc = "idle"
    /\ jobsRunning = 0
    /\ primingRun = "none"
    /\ stopErr = "none"
    /\ lateTelemetry = {}
    /\ busyAtDrain = {}

\* Agent.Run has started the scheduler; scheduleTasks has started the
\* inventory_startup goroutine when the inventory is enabled.
InitLifecycle ==
    /\ agentPc = "running"
    /\ jobsRunning = 0
    /\ primingRun \in {"none", "running"}
    /\ stopErr = "none"
    /\ lateTelemetry = {}
    /\ busyAtDrain = {}

\* A job fires: the scheduler runs the wrapped task in a goroutine.
JobTick ==
    /\ agentPc = "running"
    /\ jobsRunning < MaxJobs
    /\ jobsRunning' = jobsRunning + 1
    /\ UNCHANGED <<agentPc, primingRun, stopErr, lateTelemetry, busyAtDrain>>
    /\ UNCHANGED ExceptLifecycle

\* An invocation of a task ends: publishX has collected its data and has called
\* PublishTelemetry, or has returned early.
JobEnds ==
    /\ jobsRunning > 0
    /\ jobsRunning' = jobsRunning - 1
    /\ \E publishes \in BOOLEAN :
        lateTelemetry' = IF publishes /\ stopErr # "none"
                         THEN lateTelemetry \cup {"task"} ELSE lateTelemetry
    /\ UNCHANGED <<agentPc, primingRun, stopErr, busyAtDrain>>
    /\ UNCHANGED ExceptLifecycle

\* The inventory_startup goroutine ends: publishInventory has called
\* PublishTelemetry, or has returned early.
PrimingEnds ==
    /\ primingRun = "running"
    /\ primingRun' = "returned"
    /\ \E publishes \in BOOLEAN :
        lateTelemetry' = IF publishes /\ stopErr # "none"
                         THEN lateTelemetry \cup {"inventory_startup"} ELSE lateTelemetry
    /\ UNCHANGED <<agentPc, jobsRunning, stopErr, busyAtDrain>>
    /\ UNCHANGED ExceptLifecycle

\* The signal arrives (or the service's Stop is called): Agent.Shutdown calls
\* Scheduler.Shutdown, and no further job fires.
ShutdownBegins ==
    /\ agentPc = "running"
    /\ agentPc' = "stopping"
    /\ UNCHANGED <<jobsRunning, primingRun, stopErr, lateTelemetry, busyAtDrain>>
    /\ UNCHANGED ExceptLifecycle

\* Scheduler.Shutdown returns: nil once no job is in progress, the library's
\* timeout error while one is.  Agent.Shutdown logs the error.
SchedulerShutdownReturns ==
    /\ agentPc = "stopping"
    /\ agentPc' = "stopped"
    /\ stopErr' = IF jobsRunning = 0 THEN "nil" ELSE "err"
    /\ UNCHANGED <<jobsRunning, primingRun, lateTelemetry, busyAtDrain>>
    /\ UNCHANGED ExceptLifecycle

\* Agent.Shutdown calls Client.Drain(DrainTimeout), whatever Scheduler.Shutdown
\* returned.
ShutdownDrains ==
    /\ agentPc = "stopped"
    /\ agentPc' = "draining"
    /\ DrainCalled
    /\ busyAtDrain' = Executing(jobsRunning, primingRun)
    /\ UNCHANGED <<jobsRunning, primingRun, stopErr, lateTelemetry>>
    /\ UNCHANGED ExceptLifecycleAndDrain

\* Drain has returned: Agent.Shutdown logs its error and returns nil.
ShutdownReturns ==
    /\ agentPc = "draining"
    /\ drainPc = "returned"
    /\ agentPc' = "done"
    /\ UNCHANGED <<jobsRunning, primingRun, stopErr, lateTelemetry, busyAtDrain>>
    /\ UNCHANGED ExceptLifecycle

NextLifecycle ==
    \/ JobTick
    \/ JobEnds
    \/ PrimingEnds
    \/ ShutdownBegins
    \/ SchedulerShutdownReturns
    \/ ShutdownDrains
    \/ ShutdownReturns
    \/ DrainSteps

\* C13: once Scheduler.Shutdown has returned, no flow calls PublishTelemetry:
\* no periodic task and not the inventory_startup goroutine.
C13_NoTelemetryAfterShutdown == lateTelemetry = {}

\* C14: Drain is not called while a scheduled task is executing: Agent.Shutdown
\* has waited for the tasks in progress.
C14_DrainAfterTasksFinished ==
    agentPc \in {"draining", "done"} => busyAtDrain = {}

(***************************************************************************)
(* Health status: handleHealth reads the task counters and the connection  *)
(* and replies with determineHealthStatus.  publishMetrics records a       *)
(* failure when the scrape fails and a success when the scrape and the     *)
(* publish have both succeeded.                                            *)
(***************************************************************************)
\* The most runs of publishMetrics and the most reconnects of the model.
MaxScrapes == 4
MaxReconnects == 12

\* natsHealth.Reconnects > 10
reconnectLimit == 10

\* determineHealthStatus with the reconnect count looked at before the
\* connection.
determineHealthStatusReconnectsFirst(connected, reconns, count, failures) ==
    IF reconns > reconnectLimit THEN "degraded"
    ELSE IF ~connected THEN "unhealthy"
    ELSE IF count > 0 /\ 2 * failures > count THEN "degraded"
    ELSE "healthy"

\* determineHealthStatus(natsHealth, taskMetrics).  failureRate is
\* float64(MetricsFailures) / float64(MetricsCount); for the counters of the
\* model failureRate > 0.5 is 2 * MetricsFailures > MetricsCount exactly.
determineHealthStatus(connected, reconns, count, failures) ==
    IF ~connected THEN "unhealthy"
    ELSE IF reconns > reconnectLimit THEN "degraded"
    ELSE IF count > 0 /\ 2 * failures > count THEN "degraded"
    ELSE "healthy"

NoHealthReply ==
    [status |-> "none", connected |-> FALSE, reconnects |-> 0, count |-> 0, failures |-> 0,
     attempted |-> 0]

HealthIdle ==
    /\ busConnected = FALSE
    /\ reconnects = 0
    /\ metricsCount = 0
    /\ metricsFailures = 0
    /\ scrapesAttempted = 0
    /\ healthReply = NoHealthReply

\* After New: the client is connected, NewExecutor has zeroed the task counters.
InitHealth ==
    /\ busConnected = TRUE
    /\ reconnects = 0
    /\ metricsCount = 0
    /\ metricsFailures = 0
    /\ scrapesAttempted = 0
    /\ healthReply = NoHealthReply

\* A run of publishMetrics: the scrape fails (RecordMetricsFailure), or the
\* scrape succeeds and the marshal or the publish fails (nothing is recorded),
\* or the metrics are published (RecordMetricsSuccess).
PublishMetricsRun ==
    /\ scrapesAttempted < MaxScrapes
    /\ scrapesAttempted' = scrapesAttempted + 1
    /\ \E outcome \in {"scrapeFailed", "publishFailed", "published"} :
        /\ metricsFailures' = IF outcome = "scrapeFailed" THEN metricsFailures + 1
                              ELSE metricsFailures
        /\ metricsCount' = IF outcome = "published" THEN metricsCount + 1 ELSE metricsCount
    /\ UNCHANGED <<busConnected, reconnects, healthReply>>
    /\ UNCHANGED ExceptHealth

\* The connection is lost.
BusDisconnects ==
    /\ busConnected
    /\ reconnects < MaxReconnects
    /\ busConnected' = FALSE
    /\ UNCHANGED <<reconnects, metricsCount, metricsFailures, scrapesAttempted, healthReply>>
    /\ UNCHANGED ExceptHealth

\* The client reconnects: the connection counts the reconnect.
BusReconnects ==
    /\ ~busConnected
    /\ busConnected' = TRUE
    /\ reconnects' = reconnects + 1
    /\ UNCHANGED <<metricsCount, metricsFailures, scrapesAttempted, healthReply>>
    /\ UNCHANGED ExceptHealth

\* handleHealth: GetTaskMetrics, getNATSHealth, determineHealthStatus, reply.
HealthRequest ==
    /\ healthReply' =
        [status |-> determineHealthStatus(busConnected, reconnects, metricsCount,
                                          metricsFailures),
         connected |-> busConnected, reconnects |-> reconnects, count |-> metricsCount,
         failures |-> metricsFailures, attempted |-> scrapesAttempted]
    /\ UNCHANGED <<busConnected, reconnects, metricsCount, metricsFailures, scrapesAttempted>>
    /\ UNCHANGED ExceptHealth

NextHealth ==
    \/ PublishMetricsRun
    \/ BusDisconnects
    \/ BusReconnects
    \/ HealthRequest

\* C19: with the bus connected, the status is "degraded" whenever more than
\* half of the scrapes attempted so far have failed, for any non-zero number of
\* attempts; and metrics do not make it "degraded" when at most half of them
\* have failed.
C19_DegradedOnFailedScrapes ==
    healthReply.status # "none" =>
        LET h == healthReply IN
        /\ (h.connected /\ h.attempted > 0 /\ 2 * h.failures > h.attempted) =>
            h.status = "degraded"
        /\ (h.connected /\ h.reconnects <= reconnectLimit /\ 2 * h.failures <= h.attempted) =>
            h.status # "degraded"

\* C20: "unhealthy" whenever the bus is disconnected, whatever the counters
\* are; connected and more than 10 reconnects, "degraded"; "healthy" only if
\* connected, at most 10 reconnects, and the failure rate over a non-zero
\* metrics count is not above 50%.
C20_StatusPrecedence ==
    healthReply.status # "none" =>
        LET h == healthReply IN
        /\ ~h.connected => h.status = "unhealthy"
        /\ (h.connected /\ h.reconnects > reconnectLimit) => h.status = "degraded"
        /\ h.status = "healthy" =>
            /\ h.connected
            /\ h.reconnects <= reconnectLimit
            /\ ~(h.count > 0 /\ 2 * h.failures > h.count)

\* A health request on a disconnected bus that has reconnected more than 10
\* times, with failed scrapes on record.
C20_Witness ==
    /\ healthReply.status = "unhealthy"
    /\ healthReply.reconnects > reconnectLimit
    /\ healthReply.failures > 0

(***************************************************************************)
(* A command run: handleCustomExec calls ExecuteCommand, which starts the  *)
(* child in a goroutine (cmd.Run) and waits in a select for its result or  *)
(* for time.After(timeout); the handler then replies.  Time is counted in  *)
(* ticks since the wait began and passes only while the select is blocked. *)
(* cmd.Process is set when the child has been started.                     *)
(***************************************************************************)
\* The longest command timeout and the latest tick of the model.
MaxRunTimeout == 2
MaxRunElapsed == 3

GetProcess == <<"G", "e", "t", "-", "P", "r", "o", "c", "e", "s", "s">>

SortWord == <<"S", "o", "r", "t">>

\* allowed_commands = ["Get-Process | Sort"]
PipeWhitelist == << GetProcess \o <<" ", "|", " ">> \o SortWord >>

\* "  Get-Process|Sort  ": no white space around the pipe.
TightPipeRequest == <<" ", " ">> \o GetProcess \o <<"|">> \o SortWord \o <<" ", " ">>

\* "  Get-Process \t|  Sort ": spaces and a tab around the pipe.
SpacedPipeRequest ==
    <<" ", " ">> \o GetProcess \o <<" ", "\t", "|", " ", " ">> \o SortWord \o <<" ">>

RunCommands ==
    {GetProcess, TightPipeRequest, SpacedPipeRequest, GetProcess \o <<" ", "|", " ">> \o SortWord}

\* The texts of the model that are valid JSON.
JSONTexts == { <<"{}">> }

\* What a child writes and how it exits, once started; whether it can be started.
RunChildren ==
    [starts : BOOLEAN, code : {0, 3}, stdout : {<<>>, <<"out">>, <<"{}", "\n">>},
     stderr : {<<>>, <<"err">>}]

\* strings.TrimSpace on a text of words and line ends.
RECURSIVE TrimLeft(_)
TrimLeft(text) ==
    IF text # <<>> /\ IsSpace(Head(text)) THEN TrimLeft(Tail(text)) ELSE text

RECURSIVE TrimRight(_)
TrimRight(text) ==
    IF text # <<>> /\ IsSpace(text[Len(text)])
    THEN TrimRight(SubSeq(text, 1, Len(text) - 1)) ELSE text

TrimSpace(text) == TrimRight(TrimLeft(text))

\* The output field of the success reply: the trimmed output as a JSON value
\* when it parses as JSON, the output as a JSON string otherwise.
EncodeOutput(output) ==
    IF TrimSpace(output) # <<>> /\ TrimSpace(output) \in JSONTexts
    THEN [kind |-> "json", text |-> TrimSpace(output)]
    ELSE [kind |-> "string", text |-> output]

NoOutput == [kind |-> "absent", text |-> <<>>]

\* The fields of a customExecResponse that its JSON carries: command, output,
\* exit_code and error are omitted when they have their zero value.
JSONFields(response) ==
    {"status", "timestamp"}
        \cup (IF response.command # <<>> THEN {"command"} ELSE {})
        \cup (IF response.output # NoOutput THEN {"output"} ELSE {})
        \cup (IF response.exit_code # 0 THEN {"exit_code"} ELSE {})
        \cup (IF response.error # <<>> THEN {"error"} ELSE {})

\* handleCustomExec after ExecuteCommand has returned: the error reply carries
\* the status and the error text; the success reply carries the command, the
\* encoded output and the exit code.
customExecResponse(cmd, res) ==
    LET response ==
            IF res.err # NoError
            THEN [status |-> "error", command |-> <<>>, output |-> NoOutput, exit_code |-> 0,
                  error |-> res.err]
            ELSE [status |-> "success", command |-> cmd, output |-> EncodeOutput(res.output),
                  exit_code |-> res.exitCode, error |-> <<>>]
    IN  [response |-> response, fields |-> JSONFields(response)]

NoReply ==
    [response |-> [status |-> "none", command |-> <<>>, output |-> NoOutput, exit_code |-> 0,
                   error |-> <<>>],
     fields |-> {}]

\* A timeout case that does not kill the child.
returnWithoutKill(processSet) == FALSE

\* The timeout case of executePowerShell: if cmd.Process != nil { Kill() }.
killOnTimeout(processSet) == processSet

RunIdle ==
    /\ runChild = [starts |-> TRUE, code |-> 0, stdout |-> <<>>, stderr |-> <<>>]
    /\ runTimeout = 1
    /\ runPc = "idle"
    /\ childPc = "none"
    /\ runElapsed = 0
    /\ runResult = NoExecResult
    /\ runReply = NoReply
    /\ childAtTimeout = "none"

\* A decoded exec request has arrived; the whitelist is ["Get-Process | Sort"]
\* and no scripts directory is configured.
InitRun ==
    /\ command \in RunCommands
    /\ allowedCommands = PipeWhitelist
    /\ scriptsDir = <<>>
    /\ execPc = "idle"
    /\ execResult = NoExecResult
    /\ runChild \in RunChildren
    /\ runTimeout \in 1..MaxRunTimeout
    /\ runPc = "call"
    /\ childPc = "none"
    /\ runElapsed = 0
    /\ runResult = NoExecResult
    /\ runReply = NoReply
    /\ childAtTimeout = "none"

\* ExecuteCommand up to the select of executePowerShell: the whitelist check,
\* and for an allowed command the goroutine with cmd.Run().
RunCall ==
    /\ runPc = "call"
    /\ IF ~isCommandAllowed(command, allowedCommands, scriptsDir)
       THEN /\ runResult' = ExecuteCommand(command, allowedCommands, scriptsDir,
                                           [kind |-> "startfail"])
            /\ runPc' = "returned"
            /\ UNCHANGED childPc
       ELSE /\ childPc' = "starting"
            /\ runPc' = "select"
            /\ UNCHANGED runResult
    /\ UNCHANGED <<runChild, runTimeout, runElapsed, runReply, childAtTimeout>>
    /\ UNCHANGED ExceptRun

\* cmd.Run() starts the child (cmd.Process is set), or fails to.
ChildStarts ==
    /\ childPc = "starting"
    /\ childPc' = IF runChild.starts THEN "running" ELSE "failed"
    /\ UNCHANGED <<runChild, runTimeout, runPc, runElapsed, runResult, runReply, childAtTimeout>>
    /\ UNCHANGED ExceptRun

\* The child exits and cmd.Run() returns.
ChildExits ==
    /\ childPc = "running"
    /\ childPc' = "exited"
    /\ UNCHANGED <<runChild, runTimeout, runPc, runElapsed, runResult, runReply, childAtTimeout>>
    /\ UNCHANGED ExceptRun

\* The goroutine has sent the result of cmd.Run() on done.
RunDone == childPc \in {"exited", "failed"}

\* A tick passes while the select is blocked.
RunTimePasses ==
    /\ runPc = "select"
    /\ ~RunDone
    /\ runElapsed < runTimeout
    /\ runElapsed < MaxRunElapsed
    /\ runElapsed' = runElapsed + 1
    /\ UNCHANGED <<runChild, runTimeout, runPc, childPc, runResult, runReply, childAtTimeout>>
    /\ UNCHANGED ExceptRun

\* case err := <-done: the exit code and the combined output are returned.
RunSelectDone ==
    /\ runPc = "select"
    /\ RunDone
    /\ runResult' = executePowerShell(command,
            IF childPc = "failed"
            THEN [kind |-> "startfail", code |-> -1, stdout |-> <<>>, stderr |-> <<>>]
            ELSE [kind |-> "exit", code |-> runChild.code, stdout |-> runChild.stdout,
                  stderr |-> runChild.stderr])
    /\ runPc' = "returned"
    /\ UNCHANGED <<runChild, runTimeout, childPc, runElapsed, runReply, childAtTimeout>>
    /\ UNCHANGED ExceptRun

\* case <-time.After(timeout): the child is killed if cmd.Process is set, and
\* the timeout error is returned.
RunSelectTimeout ==
    /\ runPc = "select"
    /\ runElapsed >= runTimeout
    /\ childAtTimeout' = childPc
    /\ LET kills == killOnTimeout(childPc # "starting") /\ childPc = "running" IN
        /\ childPc' = IF kills THEN "killed" ELSE childPc
        /\ runResult' =
            [executePowerShell(command,
                [kind |-> "timeout", code |-> -1, stdout |-> <<>>, stderr |-> <<>>])
             EXCEPT !.killed = kills]
    /\ runPc' = "returned"
    /\ UNCHANGED <<runChild, runTimeout, runElapsed, runReply>>
    /\ UNCHANGED ExceptRun

\* handleCustomExec replies.
RunReply ==
    /\ runPc = "returned"
    /\ runReply' = customExecResponse(command, runResult)
    /\ runPc' = "replied"
    /\ UNCHANGED <<runChild, runTimeout, childPc, runElapsed, runResult, childAtTimeout>>
    /\ UNCHANGED ExceptRun

NextRun ==
    \/ RunCall
    \/ ChildStarts
    \/ ChildExits
    \/ RunTimePasses
    \/ RunSelectDone
    \/ RunSelectTimeout
    \/ RunReply

\* The select has returned (ExecuteCommand has its result).
RunReturned == runPc \in {"returned", "replied"}

RunRejected == RunReturned /\ runResult.err = ErrCommandNotAllowed

RunAuthorized == RunReturned /\ runResult.err # ErrCommandNotAllowed

\* C21: when the child of an authorized command is still running as the command
\* timeout elapses, the child is killed, ExecuteCommand returns exit code -1
\* with the timeout error, the handler replies with that error, and the wait
\* never lasts longer than the timeout.
C21_TimeoutKillsChild ==
    /\ runElapsed <= runTimeout
    /\ (RunReturned /\ childAtTimeout = "running") =>
            /\ childPc = "killed"
            /\ runResult.killed
            /\ runResult.exitCode = -1
            /\ runResult.err = ErrCommandTimeout
            /\ runElapsed = runTimeout
    /\ (runPc = "replied" /\ childAtTimeout = "running") =>
            /\ runReply.response.status = "error"
            /\ runReply.response.error = ErrCommandTimeout

C21_Witness ==
    /\ runPc = "replied"
    /\ childAtTimeout = "running"
    /\ childPc = "killed"
    /\ runReply.response.status = "error"

\* The reply's output stands for the text: the text as a string, or the JSON
\* value that the text holds.
OutputIs(output, text) ==
    \/ output = [kind |-> "string", text |-> text]
    \/ output = [kind |-> "json", text |-> TrimSpace(text)]

\* The select received the child's exit.
ChildExitReplied ==
    /\ runPc = "replied"
    /\ childPc = "exited"
    /\ childAtTimeout = "none"

C27_TightPipeAuthorized ==
    RunReturned =>
        /\ command = TightPipeRequest => RunAuthorized
        /\ command = GetProcess => RunRejected

\* C27 (amended): with allowed_commands = ["Get-Process | Sort"], the request
\* "  Get-Process \t|  Sort " (white space around the pipe) is authorized after
\* white-space normalization; the requests "  Get-Process|Sort  " and
\* "Get-Process" are rejected.
C27_WhitespaceNormalizedMatch ==
    RunReturned =>
        /\ command = SpacedPipeRequest => RunAuthorized
        /\ command = TightPipeRequest => RunRejected
        /\ command = GetProcess => RunRejected

C27_Witness ==
    /\ RunAuthorized
    /\ command = SpacedPipeRequest
    /\ normalizeWhitespace(command) = allowedCommands[1]

(***************************************************************************)
(* Configuration: Load reads the file over the defaults and calls          *)
(* validate; the agent runs only with a configuration validate accepted.   *)
(* Durations are in seconds.                                               *)
(***************************************************************************)
\* The limits of validate: heartbeat and metrics intervals, command timeout.
minHeartbeatInterval == 10

minMetricsInterval == 30

minCommandTimeout == 5

maxCommandTimeout == 300

\* The intervals and command timeouts of the model's configuration files.
Intervals == {9, 10, 29, 30, 31}

CommandTimeouts == {4, 5, 300, 301}

ErrHeartbeatInterval == <<"heartbeat", "interval", "must", "be", "at", "least", "10", "seconds">>

ErrMetricsInterval == <<"system_metrics", "interval", "must", "be", "at", "least", "30", "seconds">>

ErrHeartbeatAboveMetrics == <<"heartbeat", "interval", "should", "be", "less", "than", "or", "equal">>

ErrTimeoutTooShort == <<"command", "timeout", "must", "be", "at", "least", "5", "seconds">>

ErrTimeoutTooLong == <<"command", "timeout", "must", "not", "exceed", "5", "minutes">>

ErrOtherField == <<"invalid", "config">>

\* The configurations of the model: the two tasks' descriptors, the command
\* timeout, and whether the fields validate checks before the intervals
\* (device id, prefix, URLs, auth, TLS, scripts directory, services) and after
\* the timeout (log level, log rotation) are valid.
Configs ==
    [heartbeat : [enabled : BOOLEAN, interval : Intervals],
     metrics : [enabled : BOOLEAN, interval : Intervals],
     timeout : CommandTimeouts,
     identityValid : BOOLEAN,
     loggingValid : BOOLEAN]

\* A validation without the comparison of the two intervals.
validateWithoutComparison(c) ==
    IF ~c.identityValid THEN ErrOtherField
    ELSE IF c.heartbeat.enabled /\ c.heartbeat.interval < minHeartbeatInterval
    THEN ErrHeartbeatInterval
    ELSE IF c.metrics.enabled /\ c.metrics.interval < minMetricsInterval
    THEN ErrMetricsInterval
    ELSE IF c.timeout < minCommandTimeout THEN ErrTimeoutTooShort
    ELSE IF c.timeout > maxCommandTimeout THEN ErrTimeoutTooLong
    ELSE IF ~c.loggingValid THEN ErrOtherField
    ELSE NoError

\* validate: the first failed check's error, or nil.
validate(c) ==
    IF ~c.identityValid THEN ErrOtherField
    ELSE IF c.heartbeat.enabled /\ c.heartbeat.interval < minHeartbeatInterval
    THEN ErrHeartbeatInterval
    ELSE IF c.metrics.enabled /\ c.metrics.interval < minMetricsInterval
    THEN ErrMetricsInterval
    ELSE IF /\ c.heartbeat.enabled /\ c.metrics.enabled
            /\ c.heartbeat.interval > c.metrics.interval
    THEN ErrHeartbeatAboveMetrics
    ELSE IF c.timeout < minCommandTimeout THEN ErrTimeoutTooShort
    ELSE IF c.timeout > maxCommandTimeout THEN ErrTimeoutTooLong
    ELSE IF ~c.loggingValid THEN ErrOtherField
    ELSE NoError

ConfigIdle ==
    /\ cfg = [heartbeat |-> [enabled |-> TRUE, interval |-> 10],
              metrics |-> [enabled |-> TRUE, interval |-> 30],
              timeout |-> 5, identityValid |-> TRUE, loggingValid |-> TRUE]
    /\ cfgPc = "idle"
    /\ cfgErr = NoError

\* Load has read and unmarshalled the file.
InitConfig ==
    /\ cfg \in Configs
    /\ cfgPc = "loaded"
    /\ cfgErr = NoError

\* Load calls validate and returns the configuration or the error.
Validate ==
    /\ cfgPc = "loaded"
    /\ cfgErr' = validate(cfg)
    /\ cfgPc' = "validated"
    /\ UNCHANGED cfg
    /\ UNCHANGED ExceptConfig

NextConfig == Validate

\* Load returned the configuration.
Accepted == cfgPc = "validated" /\ cfgErr = NoError

\* C25 as stated: every configuration accepted by validation has heartbeat
\* interval <= metrics interval, heartbeat interval >= 10 s, metrics interval
\* >= 30 s and 5 s <= command timeout <= 5 min, whichever tasks are enabled.
C25_IntervalsBoundedAlways ==
    Accepted =>
        /\ cfg.heartbeat.interval <= cfg.metrics.interval
        /\ cfg.heartbeat.interval >= 10
        /\ cfg.metrics.interval >= 30
        /\ cfg.timeout >= 5
        /\ cfg.timeout <= 300

\* C25 (amended): every configuration accepted by validation has 5 s <=
\* command timeout <= 5 min, heartbeat interval >= 10 s if the heartbeat task
\* is enabled, metrics interval >= 30 s if the metrics task is enabled, and
\* heartbeat interval <= metrics interval if both are enabled.
C25_IntervalsBoundedWhenEnabled ==
    Accepted =>
        /\ cfg.timeout >= 5
        /\ cfg.timeout <= 300
        /\ cfg.heartbeat.enabled => cfg.heartbeat.interval >= 10
        /\ cfg.metrics.enabled => cfg.metrics.interval >= 30
        /\ (cfg.heartbeat.enabled /\ cfg.metrics.enabled) =>
                cfg.heartbeat.interval <= cfg.metrics.interval

C25_Witness ==
    /\ Accepted
    /\ cfg.heartbeat.enabled
    /\ cfg.metrics.enabled
    /\ cfg.heartbeat.interval = 30
    /\ cfg.metrics.interval = 30
    /\ cfg.timeout = 300

(***************************************************************************)
(* Bring-up: program.Start calls agent.New (configuration, logger,         *)
(* executor, bus client, command subscriptions, scheduler) and, when New   *)
(* returns an agent, starts Agent.Run in a goroutine.  A panic in a task   *)
(* or in a command handler is recovered by its wrapper; a lost connection  *)
(* is re-established by the bus client.                                    *)
(***************************************************************************)
\* The steps of agent.New that can fail, in the order New takes them.
NewSteps == <<"config", "logger", "connect", "subscribe", "scheduler">>

\* The wrappers that recover a panic, and the panics each recovers in a run of
\* the model, at most.
Wrappers == {"task", "handler"}

MaxRecovered == 3

ErrNew(step) ==
    CASE step = "config" -> <<"failed", "to", "load", "config">>
      [] step = "logger" -> <<"failed", "to", "initialize", "logger">>
      [] step = "connect" -> <<"failed", "to", "connect", "to", "NATS">>
      [] step = "subscribe" -> <<"failed", "to", "subscribe", "to", "commands">>
      [] step = "scheduler" -> <<"failed", "to", "create", "scheduler">>

\* The steps of New that fail in the environment env.
FailingSteps(env) == {i \in 1..Len(NewSteps) : env[NewSteps[i]]}

\* The first step of New that fails, 0 if none does.
FirstFailure(env) ==
    IF FailingSteps(env) = {} THEN 0
    ELSE CHOOSE i \in FailingSteps(env) : \A j \in FailingSteps(env) : i <= j

\* A New that logs the errors of SubscribeAll and scheduler.New and goes on.
NewToleratingLateErrors(env) ==
    LET first == FirstFailure([env EXCEPT !["subscribe"] = FALSE, !["scheduler"] = FALSE]) IN
    IF first = 0 THEN [err |-> NoError, link |-> "connected"]
    ELSE [err |-> ErrNew(NewSteps[first]), link |-> "none"]

\* agent.New: the error of the first step that fails, the client closed if it
\* was connected; or the agent, connected.
New(env) ==
    LET first == FirstFailure(env) IN
    IF first = 0 THEN [err |-> NoError, link |-> "connected"]
    ELSE [err |-> ErrNew(NewSteps[first]),
          link |-> IF first > 3 THEN "closed" ELSE "none"]

BringUpIdle ==
    /\ bringEnv = [step \in {"config", "logger", "connect", "subscribe", "scheduler"} |-> FALSE]
    /\ bringPc = "idle"
    /\ bringErr = NoError
    /\ agentAlive = TRUE
    /\ busLink = "none"
    /\ recovered = [w \in Wrappers |-> 0]

\* The service manager is about to call program.Start.
InitBringUp ==
    /\ bringEnv \in [{"config", "logger", "connect", "subscribe", "scheduler"} -> BOOLEAN]
    /\ bringPc = "start"
    /\ bringErr = NoError
    /\ agentAlive = TRUE
    /\ busLink = "none"
    /\ recovered = [w \in Wrappers |-> 0]

\* program.Start: agent.New; its error is returned to the service manager,
\* which ends the process; otherwise Agent.Run is started in a goroutine.
ProgramStart ==
    /\ bringPc = "start"
    /\ LET made == New(bringEnv) IN
        /\ bringErr' = made.err
        /\ busLink' = made.link
        /\ bringPc' = IF made.err = NoError THEN "running" ELSE "failed"
        /\ agentAlive' = (made.err = NoError)
    /\ UNCHANGED <<bringEnv, recovered>>
    /\ UNCHANGED ExceptBringUp

\* The connection to the bus is lost: the client logs it and reconnects.
LinkLost ==
    /\ bringPc = "running"
    /\ busLink = "connected"
    /\ busLink' = "reconnecting"
    /\ UNCHANGED <<bringEnv, bringPc, bringErr, agentAlive, recovered>>
    /\ UNCHANGED ExceptBringUp

LinkRestored ==
    /\ bringPc = "running"
    /\ busLink = "reconnecting"
    /\ busLink' = "connected"
    /\ UNCHANGED <<bringEnv, bringPc, bringErr, agentAlive, recovered>>
    /\ UNCHANGED ExceptBringUp

\* A scheduled task or a command handler panics inside its wrapper
\* (wrapTaskWithRecovery, handleWithRecovery).
PanicInWrapper(w) ==
    /\ bringPc = "running"
    /\ agentAlive
    /\ recovered[w] < MaxRecovered
    /\ agentAlive' = (wrapTaskWithRecovery(TRUE) # "crashed")
    /\ recovered' = [recovered EXCEPT ![w] = @ + 1]
    /\ UNCHANGED <<bringEnv, bringPc, bringErr, busLink>>
    /\ UNCHANGED ExceptBringUp

\* The shutdown signal: Agent.Run calls Shutdown, which stops the scheduler and
\* drains the connection; the process ends.
ShutdownSignal ==
    /\ bringPc = "running"
    /\ agentAlive
    /\ bringPc' = "stopped"
    /\ busLink' = "closed"
    /\ agentAlive' = FALSE
    /\ UNCHANGED <<bringEnv, bringErr, recovered>>
    /\ UNCHANGED ExceptBringUp

NextBringUp ==
    \/ ProgramStart
    \/ LinkLost
    \/ LinkRestored
    \/ \E w \in Wrappers : PanicInWrapper(w)
    \/ ShutdownSignal

\* Bring-up has ended with a fatal error.
Fatal == bringPc = "failed"

\* C26 as stated: bring-up returns a fatal error only when configuration
\* loading, logger initialisation or the initial bus connect fails; no other
\* failure (a command subscription error, a scheduler construction error, a
\* task or handler panic, a later bus disconnect) terminates the agent.
C26_FatalOnlyOnThreeCauses ==
    /\ Fatal => (bringEnv["config"] \/ bringEnv["logger"] \/ bringEnv["connect"])
    /\ bringPc = "running" => agentAlive

\* C26 (amended): bring-up returns a fatal error only when configuration
\* loading, logger initialisation, the initial bus connect, the command
\* subscription or the scheduler construction fails, and then the error names
\* the first of them that failed; an agent that was brought up is terminated
\* by no task or handler panic and by no later bus disconnect.
C26_FatalOnlyOnFiveCauses ==
    /\ Fatal <=> (bringPc # "start" /\ FailingSteps(bringEnv) # {})
    /\ bringPc = "stopped" => bringErr = NoError
    /\ Fatal => /\ bringErr = ErrNew(NewSteps[FirstFailure(bringEnv)])
                /\ ~agentAlive
                /\ busLink \in {"none", "closed"}
    /\ bringPc = "running" => /\ agentAlive
                              /\ bringErr = NoError
                              /\ busLink \in {"connected", "reconnecting"}

C26_Witness ==
    /\ bringPc = "running"
    /\ agentAlive
    /\ recovered["task"] > 0
    /\ recovered["handler"] > 0
    /\ busLink = "reconnecting"

(***************************************************************************)
(* The metrics baseline: scheduleTasks, called by scheduler.New, scrapes   *)
(* the exporter up to three times before it registers the jobs; Start      *)
(* comes after New has returned.                                           *)
(***************************************************************************)
\* The attempts of the baseline loop and the seconds it sleeps between two.
baselineMaxRetries == 3

baselineRetryDelay == 2

\* The ticks of the metrics job in a run of the model, at most.
MaxMetricsTicks == 2

\* A loop that goes on to the next blAttempt after a scrape that succeeded.
baselineWithoutBreak(ok, n) ==
    IF n < baselineMaxRetries THEN "sleep" ELSE "register"

\* The baseline loop after blAttempt n: break on success; sleep and try again
\* after a failure that is not the last; go on to register the jobs after the
\* last.
baselineStep(ok, n) ==
    IF ok THEN "register"
    ELSE IF n < baselineMaxRetries THEN "sleep" ELSE "register"

\* config.Tasks.SystemMetrics.Enabled
metricsEnabled == "metrics" \in blEnabled

BaselineIdle ==
    /\ blEnabled = {}
    /\ exporterUp = <<TRUE, TRUE, TRUE>>
    /\ blPc = "idle"
    /\ blAttempt = 1
    /\ baselineScrapes = <<>>
    /\ baselineErr = FALSE
    /\ slept = 0
    /\ registered = {}
    /\ metricsTicks = 0

\* scheduler.New has built the Scheduler and calls scheduleTasks.
InitBaseline ==
    /\ blEnabled \in SUBSET {"heartbeat", "metrics"}
    /\ exporterUp \in [1..baselineMaxRetries -> BOOLEAN]
    /\ blPc = IF metricsEnabled THEN "scrape" ELSE "register"
    /\ blAttempt = 1
    /\ baselineScrapes = <<>>
    /\ baselineErr = FALSE
    /\ slept = 0
    /\ registered = {}
    /\ metricsTicks = 0

\* One blAttempt of the loop: ScrapeMetrics, then break or go on.
BaselineScrape ==
    /\ blPc = "scrape"
    /\ baselineScrapes' = Append(baselineScrapes, exporterUp[blAttempt])
    /\ baselineErr' = ~exporterUp[blAttempt]
    /\ blPc' = baselineStep(exporterUp[blAttempt], blAttempt)
    /\ UNCHANGED <<blEnabled, exporterUp, blAttempt, slept, registered, metricsTicks>>
    /\ UNCHANGED ExceptBaseline

\* time.Sleep(retryDelay), then the next blAttempt.
BaselineSleep ==
    /\ blPc = "sleep"
    /\ slept' = slept + baselineRetryDelay
    /\ blAttempt' = blAttempt + 1
    /\ blPc' = "scrape"
    /\ UNCHANGED <<blEnabled, exporterUp, baselineScrapes, baselineErr, registered,
                   metricsTicks>>
    /\ UNCHANGED ExceptBaseline

\* The rest of scheduleTasks: a warning if baselineErr is set, then NewJob for
\* the enabled tasks; New returns the Scheduler.
RegisterJobs ==
    /\ blPc = "register"
    /\ registered' = blEnabled
    /\ blPc' = "created"
    /\ UNCHANGED <<blEnabled, exporterUp, blAttempt, baselineScrapes, baselineErr, slept,
                   metricsTicks>>
    /\ UNCHANGED ExceptBaseline

\* Scheduler.Start.
JobsStart ==
    /\ blPc = "created"
    /\ blPc' = "started"
    /\ UNCHANGED <<blEnabled, exporterUp, blAttempt, baselineScrapes, baselineErr, slept,
                   registered, metricsTicks>>
    /\ UNCHANGED ExceptBaseline

\* A tick of the metrics job.
MetricsTick ==
    /\ blPc = "started"
    /\ "metrics" \in registered
    /\ metricsTicks < MaxMetricsTicks
    /\ metricsTicks' = metricsTicks + 1
    /\ UNCHANGED <<blEnabled, exporterUp, blPc, blAttempt, baselineScrapes, baselineErr,
                   slept, registered>>
    /\ UNCHANGED ExceptBaseline

NextBaseline ==
    \/ BaselineScrape
    \/ BaselineSleep
    \/ RegisterJobs
    \/ JobsStart
    \/ MetricsTick

\* The baseline scrapes are over: one succeeded, or all three failed.
BaselineOver ==
    /\ baselineScrapes # <<>>
    /\ \/ baselineScrapes[Len(baselineScrapes)]
       \/ Len(baselineScrapes) = 3

\* C28: with the metrics task enabled, start-up makes at most three
\* synchronous scrapes and stops at the first that succeeds; they are over
\* before the metrics job is registered and before its first tick; if all
\* three fail, start-up goes on and the metrics job is registered all the same.
C28_BaselineBeforeRegistration ==
    metricsEnabled =>
        /\ Len(baselineScrapes) <= 3
        /\ \A i \in 1..Len(baselineScrapes) :
              /\ baselineScrapes[i] = exporterUp[i]
              /\ i < Len(baselineScrapes) => ~baselineScrapes[i]
        /\ ("metrics" \in registered \/ metricsTicks > 0) => BaselineOver
        /\ blPc \in {"created", "started"} => "metrics" \in registered
        /\ BaselineOver => blPc \in {"register", "created", "started"}

\* All three scrapes failed, the job was registered and has ticked.
C28_Witness ==
    /\ metricsEnabled
    /\ baselineScrapes = <<FALSE, FALSE, FALSE>>
    /\ baselineErr
    /\ slept = 4
    /\ "metrics" \in registered
    /\ metricsTicks > 0

(***************************************************************************)
(* The executor's statistics: TaskStats and ExecutorStats, each behind its *)
(* own RWMutex.  The tasks' publish functions record a run after its       *)
(* publish, the command handlers record each command, and handleHealth     *)
(* reads both.  A flow is one goroutine: a run of a task, a command        *)
(* handler or the health handler.                                          *)
(***************************************************************************)
\* The flows of the model, and the most runs they begin in all.
StatFlows == {"f1", "f2"}
MaxStatRuns == 2

\* The mutexes of the executor: metricsCache.mu, taskStats.mu, stats.mu.
Mutexes == {"metricsCache", "taskStats", "stats"}

\* The errors a failed command hands to RecordCommandError.
CommandErrors == {"e1", "e2"}

\* The counters of TaskStats.
TaskCounters == Tasks \cup {"metricsFailures"}

\* The mutex a function of the executor takes, and how it takes it.
MutexOf(fn) == IF fn \in {"GetAgentMetrics", "RecordCommandSuccess", "RecordCommandError"}
               THEN "stats" ELSE "taskStats"

ModeOf(fn) == IF fn \in {"GetAgentMetrics", "GetTaskMetrics"} THEN "read" ELSE "write"

\* The Record function of each counter of TaskStats.
RecordOf(counter) ==
    CASE counter = "heartbeat" -> "RecordHeartbeat"
      [] counter = "metrics" -> "RecordMetricsSuccess"
      [] counter = "service_check" -> "RecordServiceCheck"
      [] counter = "inventory" -> "RecordInventory"
      [] counter = "metricsFailures" -> "RecordMetricsFailure"

\* The subject a task publishes on.
SubjectOf(task) ==
    CASE task = "heartbeat" -> "heartbeat"
      [] task = "metrics" -> "telemetry.system"
      [] task = "service_check" -> "telemetry.service"
      [] task = "inventory" -> "telemetry.inventory"

\* A function that locks and returns without unlocking.
LockedWithoutUnlock(fn, arg) ==
    << [op |-> "lock", fn |-> fn, arg |-> arg], [op |-> "body", fn |-> fn, arg |-> arg] >>

\* A call of a function of the executor: mu.Lock() (or RLock), the deferred
\* unlock registered, the body, and the unlock at the return.
Locked(fn, arg) ==
    << [op |-> "lock", fn |-> fn, arg |-> arg], [op |-> "body", fn |-> fn, arg |-> arg],
       [op |-> "unlock", fn |-> fn, arg |-> arg] >>

\* A step that takes no mutex: a call out of the flow's function.
Out(op, arg) == << [op |-> op, fn |-> "", arg |-> arg] >>

\* A task that records its run whatever PublishTelemetry returned.
RecordWhateverPublished(outcome, record) ==
    IF outcome = "marshalFailed" THEN Out("marshal", "error")
    ELSE IF outcome = "publishFailed"
    THEN Out("marshal", "ok") \o Out("publishRefused", "data") \o Locked(record, "")
    ELSE Out("marshal", "ok") \o Out("publish", "data") \o Locked(record, "")

\* The end of each publish function: json.Marshal of the data and
\* PublishTelemetry, each returning on its error, then the task's Record
\* function.
PublishAndRecord(outcome, record) ==
    IF outcome = "marshalFailed" THEN Out("marshal", "error")
    ELSE IF outcome = "publishFailed" THEN Out("marshal", "ok") \o Out("publishRefused", "data")
    ELSE Out("marshal", "ok") \o Out("publish", "data") \o Locked(record, "")

\* How the error message of a failed collection is published: Marshal, then
\* PublishTelemetry, whose error is logged.
PublishError(outcome) ==
    Out("marshal", "ok")
        \o Out(IF outcome = "collectFailed" THEN "publish" ELSE "publishRefused", "error")

\* publishHeartbeat: CreateHeartbeat, Marshal, PublishTelemetry, RecordHeartbeat.
publishHeartbeat(outcome) ==
    Out("collect", "ok") \o PublishAndRecord(outcome, "RecordHeartbeat")

\* publishMetrics with a failure path that records and publishes nothing.
publishMetricsSilentFailure(outcome) ==
    IF outcome \in {"collectFailed", "collectFailedRefused"}
    THEN Out("collect", "error") \o Locked("RecordMetricsFailure", "")
    ELSE Out("collect", "ok") \o PublishAndRecord(outcome, "RecordMetricsSuccess")

\* publishMetrics: ScrapeMetrics; on its error RecordMetricsFailure, then
\* CreateMetricsError and the publish of the error message; otherwise Marshal,
\* PublishTelemetry, RecordMetricsSuccess.
publishMetrics(outcome) ==
    IF outcome \in {"collectFailed", "collectFailedRefused"}
    THEN Out("collect", "error") \o Locked("RecordMetricsFailure", "") \o PublishError(outcome)
    ELSE Out("collect", "ok") \o PublishAndRecord(outcome, "RecordMetricsSuccess")

\* publishServiceStatus: GetServiceStatuses; on its error the error message is
\* published and nothing is recorded; otherwise Marshal, PublishTelemetry,
\* RecordServiceCheck.
publishServiceStatus(outcome) ==
    IF outcome \in {"collectFailed", "collectFailedRefused"}
    THEN Out("collect", "error") \o PublishError(outcome)
    ELSE Out("collect", "ok") \o PublishAndRecord(outcome, "RecordServiceCheck")

\* publishInventory: CollectInventory (its error returns), Marshal,
\* PublishTelemetry, RecordInventory.
publishInventory(outcome) ==
    IF outcome = "collectFailed" THEN Out("collect", "error")
    ELSE Out("collect", "ok") \o PublishAndRecord(outcome, "RecordInventory")

\* The ways a run of a task can end, a panic apart.
TaskOutcomes(task) ==
    {"marshalFailed", "publishFailed", "published"}
    \cup (IF task \in {"metrics", "service_check", "inventory"} THEN {"collectFailed"} ELSE {})
    \cup (IF task \in {"metrics", "service_check"} THEN {"collectFailedRefused"} ELSE {})

\* A handler of the service, logs or exec subject after decoding: the
\* operation, RecordCommandSuccess or RecordCommandError(err), the reply.
handleCommand(err) ==
    Out("execute", err)
        \o (IF err = "" THEN Locked("RecordCommandSuccess", "")
            ELSE Locked("RecordCommandError", err))
        \o Out("respond", err)

\* handleHealth as far as the statistics go: GetAgentMetrics, GetTaskMetrics,
\* the rest of the health information, the reply.
handleHealthReads ==
    Locked("GetAgentMetrics", "") \o Locked("GetTaskMetrics", "") \o Out("collect", "ok")
        \o Out("respond", "")

\* What a flow can run.
FlowKinds ==
    UNION { { [kind |-> "task", task |-> t, outcome |-> o, err |-> ""] : o \in TaskOutcomes(t) } :
            t \in Tasks }
    \cup { [kind |-> "command", task |-> "", outcome |-> "", err |-> e] :
            e \in CommandErrors \cup {""} }
    \cup { [kind |-> "health", task |-> "", outcome |-> "", err |-> ""] }

\* The steps of a flow.
StepsOf(k) ==
    IF k.kind = "health" THEN handleHealthReads
    ELSE IF k.kind = "command" THEN handleCommand(k.err)
    ELSE IF k.task = "heartbeat" THEN publishHeartbeat(k.outcome)
    ELSE IF k.task = "metrics" THEN publishMetrics(k.outcome)
    ELSE IF k.task = "service_check" THEN publishServiceStatus(k.outcome)
    ELSE publishInventory(k.outcome)

\* The position of a flow whose function has returned.
FlowReturned(f) == Len(StepsOf(stFlow[f])) + 1

\* The step a running flow is at.
StepAt(f) == StepsOf(stFlow[f])[stPc[f]]

FlowRunning(f) == stPc[f] \in 1..Len(StepsOf(stFlow[f]))

\* RecordHeartbeat, RecordMetricsSuccess, RecordServiceCheck, RecordInventory:
\* the task's last timestamp and its counter.
RecordTask(ts, task, now) ==
    [ts EXCEPT !.count[task] = @ + 1, !.last[task] = now]

RecordMetricsFailure(ts) == [ts EXCEPT !.count["metricsFailures"] = @ + 1]

RecordCommandSuccess(st) == [st EXCEPT !.commandsProcessed = @ + 1]

\* RecordCommandError counting the command as failed only.
RecordCommandErrorOnly(st, err, now) ==
    [st EXCEPT !.commandsErrored = @ + 1, !.lastError = err, !.lastErrorTime = now]

\* RecordCommandError: the command counts as failed and as processed.
RecordCommandError(st, err, now) ==
    [st EXCEPT !.commandsErrored = @ + 1, !.commandsProcessed = @ + 1,
               !.lastError = err, !.lastErrorTime = now]

\* GetAgentMetrics: the counters, and the last error if its time is set.
GetAgentMetrics(st) ==
    [commandsProcessed |-> st.commandsProcessed, commandsErrored |-> st.commandsErrored,
     lastError |-> IF st.lastErrorTime # 0 THEN st.lastError ELSE "",
     lastErrorTime |-> st.lastErrorTime]

\* NewExecutor: stats and taskStats are zero.
NoStats == [commandsProcessed |-> 0, commandsErrored |-> 0, lastError |-> "", lastErrorTime |-> 0]

NoTaskStats == [count |-> [c \in TaskCounters |-> 0], last |-> [t \in Tasks |-> 0]]

NoneHeld == [m \in Mutexes |-> "none"]

StatsIdle ==
    /\ stFlow = [f \in StatFlows |-> [kind |-> "health", task |-> "", outcome |-> "", err |-> ""]]
    /\ stPc = [f \in StatFlows |-> 0]
    /\ stHeld = [f \in StatFlows |-> NoneHeld]
    /\ taskStats = NoTaskStats
    /\ stats = NoStats
    /\ stClock = 0
    /\ stEffects = [f \in StatFlows |-> <<>>]
    /\ stDue = [c \in TaskCounters |-> 0]
    /\ stCalls = 0
    /\ errCalls = {}
    /\ agentMetrics = NoStats
    /\ stRuns = 0

\* After NewExecutor; no flow has started.
InitStats == StatsIdle

\* rw.Lock() returns when no flow holds the mutex; rw.RLock() when no flow
\* holds it for writing.
CanLock(m, mode) ==
    \A g \in StatFlows :
        \/ stHeld[g][m] = "none"
        \/ mode = "read" /\ stHeld[g][m] = "read"

\* A tick of a task's job, or a request delivered to a handler: the flow
\* begins its function.
FlowBegins(f) ==
    /\ stPc[f] = 0 \/ stPc[f] = FlowReturned(f)
    /\ stRuns < MaxStatRuns
    /\ stRuns' = stRuns + 1
    /\ \E k \in FlowKinds : stFlow' = [stFlow EXCEPT ![f] = k]
    /\ stPc' = [stPc EXCEPT ![f] = 1]
    /\ stEffects' = [stEffects EXCEPT ![f] = <<>>]
    /\ UNCHANGED <<stHeld, taskStats, stats, stClock, stDue, stCalls, errCalls, agentMetrics>>
    /\ UNCHANGED ExceptStats

\* mu.Lock() or mu.RLock() at the start of a function of the executor.
LockStep(f) ==
    /\ FlowRunning(f)
    /\ StepAt(f).op = "lock"
    /\ LET fn == StepAt(f).fn IN
        /\ CanLock(MutexOf(fn), ModeOf(fn))
        /\ stHeld' = [stHeld EXCEPT ![f][MutexOf(fn)] = ModeOf(fn)]
        /\ stCalls' = IF fn \in {"RecordCommandSuccess", "RecordCommandError"}
                      THEN stCalls + 1 ELSE stCalls
    /\ stPc' = [stPc EXCEPT ![f] = @ + 1]
    /\ UNCHANGED <<stFlow, taskStats, stats, stClock, stEffects, stDue, errCalls, agentMetrics,
                   stRuns>>
    /\ UNCHANGED ExceptStats

\* The body of the function, with the mutex held.
BodyStep(f) ==
    /\ FlowRunning(f)
    /\ StepAt(f).op = "body"
    /\ LET fn  == StepAt(f).fn
           err == StepAt(f).arg
           now == stClock + 1
       IN
        /\ taskStats' =
            IF fn = "RecordMetricsFailure" THEN RecordMetricsFailure(taskStats)
            ELSE IF \E t \in Tasks : fn = RecordOf(t)
            THEN RecordTask(taskStats, CHOOSE t \in Tasks : fn = RecordOf(t), now)
            ELSE taskStats
        /\ stats' =
            IF fn = "RecordCommandSuccess" THEN RecordCommandSuccess(stats)
            ELSE IF fn = "RecordCommandError" THEN RecordCommandError(stats, err, now)
            ELSE stats
        /\ stClock' = IF (\E t \in Tasks : fn = RecordOf(t)) \/ fn = "RecordCommandError"
                      THEN now ELSE stClock
        /\ errCalls' = IF fn = "RecordCommandError"
                       THEN errCalls \cup {[error |-> err, time |-> now]} ELSE errCalls
        /\ agentMetrics' = IF fn = "GetAgentMetrics" THEN GetAgentMetrics(stats)
                           ELSE agentMetrics
        /\ stEffects' = [stEffects EXCEPT ![f] =
                            IF ModeOf(fn) = "write" THEN Append(@, <<"record", fn, "">>) ELSE @]
    /\ stPc' = [stPc EXCEPT ![f] = @ + 1]
    /\ UNCHANGED <<stFlow, stHeld, stDue, stCalls, stRuns>>
    /\ UNCHANGED ExceptStats

\* The deferred mu.Unlock() or mu.RUnlock() at the function's return.
UnlockStep(f) ==
    /\ FlowRunning(f)
    /\ StepAt(f).op = "unlock"
    /\ stHeld' = [stHeld EXCEPT ![f][MutexOf(StepAt(f).fn)] = "none"]
    /\ stPc' = [stPc EXCEPT ![f] = @ + 1]
    /\ UNCHANGED <<stFlow, taskStats, stats, stClock, stEffects, stDue, stCalls, errCalls,
                   agentMetrics, stRuns>>
    /\ UNCHANGED ExceptStats

\* PublishTelemetry(subject, data): the message is handed to the bus, which
\* accepts it (nil) or not (an error).  A failed scrape, and a publish of a
\* task's data that returned nil, are what the counters are to count.
PublishStep(f) ==
    /\ FlowRunning(f)
    /\ StepAt(f).op \in {"publish", "publishRefused"}
    /\ stEffects' = [stEffects EXCEPT
            ![f] = Append(@, <<StepAt(f).op, StepAt(f).arg, SubjectOf(stFlow[f].task)>>)]
    /\ stDue' = IF StepAt(f).op = "publish" /\ StepAt(f).arg = "data"
                THEN [stDue EXCEPT ![stFlow[f].task] = @ + 1] ELSE stDue
    /\ stPc' = [stPc EXCEPT ![f] = @ + 1]
    /\ UNCHANGED <<stFlow, stHeld, taskStats, stats, stClock, stCalls, errCalls, agentMetrics,
                   stRuns>>
    /\ UNCHANGED ExceptStats

\* The other calls of a flow: the collection (ScrapeMetrics for the metrics
\* task), json.Marshal, the command's operation, the reply.
OutStep(f) ==
    /\ FlowRunning(f)
    /\ StepAt(f).op \in {"collect", "marshal", "execute", "respond"}
    /\ stDue' = IF StepAt(f).op = "collect" /\ StepAt(f).arg = "error"
                   /\ stFlow[f].task = "metrics"
                THEN [stDue EXCEPT !["metricsFailures"] = @ + 1] ELSE stDue
    /\ stPc' = [stPc EXCEPT ![f] = @ + 1]
    /\ UNCHANGED <<stFlow, stHeld, taskStats, stats, stClock, stEffects, stCalls, errCalls,
                   agentMetrics, stRuns>>
    /\ UNCHANGED ExceptStats

\* A call of the flow panics: the deferred unlocks of the functions on the
\* stack run, and wrapTaskWithRecovery or handleWithRecovery recovers.
FlowPanics(f) ==
    /\ FlowRunning(f)
    /\ StepAt(f).op \in {"collect", "marshal", "publish", "publishRefused", "execute", "respond"}
    /\ stHeld' = [stHeld EXCEPT ![f] = NoneHeld]
    /\ stEffects' = [stEffects EXCEPT ![f] = Append(@, <<"panic", "", "">>)]
    /\ stPc' = [stPc EXCEPT ![f] = FlowReturned(f)]
    /\ UNCHANGED <<stFlow, taskStats, stats, stClock, stDue, stCalls, errCalls, agentMetrics,
                   stRuns>>
    /\ UNCHANGED ExceptStats

NextStats ==
    \E f \in StatFlows :
        \/ FlowBegins(f)
        \/ LockStep(f)
        \/ BodyStep(f)
        \/ UnlockStep(f)
        \/ PublishStep(f)
        \/ OutStep(f)
        \/ FlowPanics(f)

(***************************************************************************)
(* Claims about the executor's statistics.                                 *)
(***************************************************************************)
\* The flows that are to run, or are running, the body of a counter's Record
\* function.
Pending(counter) ==
    Cardinality({ f \in StatFlows :
        /\ FlowRunning(f)
        /\ StepAt(f).fn = RecordOf(counter)
        /\ StepAt(f).op \in {"lock", "body"} })

\* The run of flow f has returned without a panic.
RunOver(f) ==
    /\ stPc[f] = FlowReturned(f)
    /\ \A i \in 1..Len(stEffects[f]) : stEffects[f][i][1] # "panic"

\* Flow f was a tick of the metrics task whose scrape failed.
ScrapeFailedRun(f) ==
    /\ RunOver(f)
    /\ stFlow[f].kind = "task"
    /\ stFlow[f].task = "metrics"
    /\ stFlow[f].outcome \in {"collectFailed", "collectFailedRefused"}

\* C32: a tick of the metrics task whose scrape fails records one metrics
\* failure and hands exactly one message to PublishTelemetry, the error
\* variant on telemetry.system; it records no metrics success and leaves the
\* last-metrics timestamp alone; and metricsFailures counts the failed scrapes.
C32_FailedScrapePublishesError ==
    /\ \A f \in StatFlows :
        ScrapeFailedRun(f) =>
            /\ Len(stEffects[f]) = 2
            /\ stEffects[f][1] = <<"record", "RecordMetricsFailure", "">>
            /\ stEffects[f][2][1] \in {"publish", "publishRefused"}
            /\ stEffects[f][2][2] = "error"
            /\ stEffects[f][2][3] = "telemetry.system"
    /\ taskStats.count["metricsFailures"] + Pending("metricsFailures")
            = stDue["metricsFailures"]

\* Two ticks' scrapes have failed; the first one's error message was accepted.
C32_Witness ==
    /\ ScrapeFailedRun("f1")
    /\ ScrapeFailedRun("f2")
    /\ stEffects["f1"][2] = <<"publish", "error", "telemetry.system">>
    /\ taskStats.count["metricsFailures"] = 2
    /\ taskStats.count["metrics"] = 0
    /\ taskStats.last["metrics"] = 0

\* The mutexes flow f holds.
HeldBy(f) == { m \in Mutexes : stHeld[f][m] # "none" }

\* Flow f is at a Lock or RLock that cannot return now.
Blocked(f) ==
    /\ FlowRunning(f)
    /\ StepAt(f).op = "lock"
    /\ ~CanLock(MutexOf(StepAt(f).fn), ModeOf(StepAt(f).fn))

\* C35: no flow (a task's run, a command handler, the health handler) holds
\* more than one of the metrics-cache, task-stats and command-stats mutexes at
\* a time; a flow that has returned, by a panic too, holds none; and a flow
\* waiting for a mutex waits for a flow that holds it and is itself not
\* waiting, so no interleaving deadlocks.
C35_OneMutexAtATime ==
    \A f \in StatFlows :
        /\ Cardinality(HeldBy(f)) <= 1
        /\ ~FlowRunning(f) => HeldBy(f) = {}
        /\ Blocked(f) =>
            \E g \in StatFlows \ {f} :
                /\ MutexOf(StepAt(f).fn) \in HeldBy(g)
                /\ FlowRunning(g)
                /\ StepAt(g).op \in {"body", "unlock"}

\* A command handler is inside RecordCommandError with the command-stats mutex
\* held while the health handler waits for it in GetAgentMetrics.
C35_Witness ==
    /\ stHeld["f1"]["stats"] = "write"
    /\ StepAt("f1").fn = "RecordCommandError"
    /\ stFlow["f2"].kind = "health"
    /\ Blocked("f2")

\* The calls of RecordCommandSuccess and RecordCommandError that hold the
\* mutex and have not yet run their body.
PendingCalls ==
    Cardinality({ f \in StatFlows :
        /\ FlowRunning(f)
        /\ StepAt(f).op = "body"
        /\ StepAt(f).fn \in {"RecordCommandSuccess", "RecordCommandError"} })

\* The last error of s is unset, or is the error and time of a call of
\* RecordCommandError.
LastErrorFromACall(s) ==
    \/ s.lastError = "" /\ s.lastErrorTime = 0
    \/ [error |-> s.lastError, time |-> s.lastErrorTime] \in errCalls

CommandStatsConsistent ==
    /\ 0 <= stats.commandsErrored
    /\ stats.commandsErrored <= stats.commandsProcessed
    /\ stats.commandsProcessed + PendingCalls = stCalls
    /\ stats.commandsErrored = Cardinality(errCalls)
    /\ LastErrorFromACall(stats)
    /\ errCalls = {} => stats.lastErrorTime = 0
    /\ agentMetrics.commandsErrored <= agentMetrics.commandsProcessed
    /\ LastErrorFromACall(agentMetrics)

CommandStatsGrow ==
    /\ stats'.commandsProcessed >= stats.commandsProcessed
    /\ stats'.commandsErrored >= stats.commandsErrored

\* C36: under any interleaving of RecordCommandSuccess and RecordCommandError
\* calls commandsProcessed and commandsErrored never decrease,
\* 0 <= commandsErrored <= commandsProcessed, commandsProcessed is the number
\* of Record calls, and lastError and lastErrorTime are those of some
\* RecordCommandError call, unset if there was none; GetAgentMetrics reports
\* them so.
C36_CommandStatsMonotonic == []CommandStatsConsistent /\ [][CommandStatsGrow]_vars

\* Two commands have failed, the second with e1 after the first with e2,
\* which it has overwritten.
C36_Witness ==
    /\ stats = [commandsProcessed |-> 2, commandsErrored |-> 2, lastError |-> "e1",
                lastErrorTime |-> 2]
    /\ errCalls = {[error |-> "e2", time |-> 1], [error |-> "e1", time |-> 2]}
    /\ stCalls = 2

\* The effects of flow f's run that are the operation op with the argument arg.
EffectsOf(f, op, arg) ==
    Cardinality({ i \in 1..Len(stEffects[f]) :
        stEffects[f][i][1] = op /\ stEffects[f][i][2] = arg })

TaskStatsConsistent ==
    /\ \A t \in Tasks :
        /\ taskStats.count[t] + Pending(t) = stDue[t]
        /\ taskStats.last[t] = 0 <=> taskStats.count[t] = 0
    /\ \A f \in StatFlows :
        (stFlow[f].kind = "task" /\ stPc[f] = FlowReturned(f)) =>
            /\ \A t \in Tasks \ {stFlow[f].task} : EffectsOf(f, "record", RecordOf(t)) = 0
            /\ EffectsOf(f, "record", RecordOf(stFlow[f].task)) = EffectsOf(f, "publish", "data")
            /\ EffectsOf(f, "publish", "data") <= 1

TaskStatsGrow ==
    \A t \in Tasks :
        /\ taskStats'.count[t] >= taskStats.count[t]
        /\ taskStats'.last[t] # taskStats.last[t] => taskStats'.count[t] = taskStats.count[t] + 1

\* C37: each task's success counter goes up by exactly one for every run of
\* the task whose PublishTelemetry call returned nil and is unchanged by a run
\* that fails to collect, to marshal or to enqueue, or that panics; the task's
\* last-successful timestamp changes only together with its counter; and no
\* task counter ever decreases.
C37_TaskCountersCountPublishes == []TaskStatsConsistent /\ [][TaskStatsGrow]_vars

\* A heartbeat was published and recorded; a metrics run whose publish was
\* refused has returned and left the metrics counter alone.
C37_Witness ==
    /\ stFlow["f1"] = [kind |-> "task", task |-> "heartbeat", outcome |-> "published", err |-> ""]
    /\ RunOver("f1")
    /\ stFlow["f2"] = [kind |-> "task", task |-> "metrics", outcome |-> "publishFailed", err |-> ""]
    /\ RunOver("f2")
    /\ taskStats.count["heartbeat"] = 1
    /\ taskStats.last["heartbeat"] = 1
    /\ taskStats.count["metrics"] = 0
    /\ taskStats.last["metrics"] = 0

(***************************************************************************)
(* The initial connect: NewClient hands a server URL to nats.Connect,      *)
(* which dials the servers it was given, in order, until one accepts.      *)
(***************************************************************************)
\* The servers of the model and the longest configured list.
Servers == {"u1", "u2", "u3"}
MaxURLs == 3

\* cfg.URLs: validate has refused an empty list.
URLLists == UNION { [1..n -> Servers] : n \in 1..MaxURLs }

\* What NewClient hands to nats.Connect: cfg.URLs[0].
ConnectTarget(urls) == << urls[1] >>

ConnectIdle ==
    /\ cfgURLs = << "u1" >>
    /\ accepting = {}
    /\ connPc = "idle"
    /\ serverPool = <<>>
    /\ dialed = <<>>

\* The configuration is loaded; some servers are up.
InitConnect ==
    /\ cfgURLs \in URLLists
    /\ accepting \in SUBSET Servers
    /\ connPc = "idle"
    /\ serverPool = <<>>
    /\ dialed = <<>>

\* NewClient calls nats.Connect(cfg.URLs[0], opts...).
NewClientCall ==
    /\ connPc = "idle"
    /\ connPc' = "dialing"
    /\ serverPool' = ConnectTarget(cfgURLs)
    /\ UNCHANGED <<cfgURLs, accepting, dialed>>
    /\ UNCHANGED ExceptConnect

\* nats.Connect dials the next server it was given: the connection is made if
\* the server accepts; with no server left Connect returns its error and
\* NewClient returns "failed to connect to NATS".
Dial ==
    /\ connPc = "dialing"
    /\ IF serverPool = <<>>
       THEN /\ connPc' = "failed"
            /\ UNCHANGED <<serverPool, dialed>>
       ELSE /\ dialed' = Append(dialed, Head(serverPool))
            /\ serverPool' = Tail(serverPool)
            /\ connPc' = IF Head(serverPool) \in accepting THEN "connected" ELSE "dialing"
    /\ UNCHANGED <<cfgURLs, accepting>>
    /\ UNCHANGED ExceptConnect

NextConnect == NewClientCall \/ Dial

(***************************************************************************)
(* Claims about the initial connect.                                       *)
(***************************************************************************)
\* C34: the client uses the whole configured list [u1, ..., un] for failover:
\* the initial connect succeeds if any configured URL accepts and fails only
\* if none of them does.
C34_ConnectUsesWholeList ==
    connPc \in {"connected", "failed"} =>
        (connPc = "connected" <=> \E i \in 1..Len(cfgURLs) : cfgURLs[i] \in accepting)

(***************************************************************************)
(* The callers of Agent.Shutdown: Agent.Run after the signal, and the      *)
(* service manager's Stop callback (program.Stop).                         *)
(***************************************************************************)
\* The flows that call Agent.Shutdown.
Callers == {"run", "stop"}

\* What a call of Scheduler.Shutdown or Client.Drain returns.
CallResults == {"nil", "error"}

StopIdle ==
    /\ sdPc = [c \in Callers |-> "idle"]
    /\ sdLogged = [c \in Callers |-> {}]
    /\ sdResult = [c \in Callers |-> "none"]
    /\ sdSchedulerStops = 0
    /\ sdDrains = 0

\* program.Start has returned: Agent.Run waits for the signal, the service
\* manager has not called Stop.
InitStop ==
    /\ sdPc = [c \in Callers |-> "waiting"]
    /\ sdLogged = [c \in Callers |-> {}]
    /\ sdResult = [c \in Callers |-> "none"]
    /\ sdSchedulerStops = 0
    /\ sdDrains = 0

\* <-sigChan in Agent.Run, or the service manager calls program.Stop with
\* p.agent set: the flow enters Agent.Shutdown.
ShutdownEntered(c) ==
    /\ sdPc[c] = "waiting"
    /\ sdPc' = [sdPc EXCEPT ![c] = "scheduler"]
    /\ UNCHANGED <<sdLogged, sdResult, sdSchedulerStops, sdDrains>>
    /\ UNCHANGED ExceptStop

\* a.scheduler.Shutdown(): its error is logged.
SchedulerShutdownCalled(c) ==
    /\ sdPc[c] = "scheduler"
    /\ sdSchedulerStops' = sdSchedulerStops + 1
    /\ \E r \in CallResults :
        sdLogged' = [sdLogged EXCEPT ![c] = IF r = "error" THEN @ \cup {"scheduler"} ELSE @]
    /\ sdPc' = [sdPc EXCEPT ![c] = "drain"]
    /\ UNCHANGED <<sdResult, sdDrains>>
    /\ UNCHANGED ExceptStop

\* a.nats.Drain(DrainTimeout): its error is logged.
DrainCalledBy(c) ==
    /\ sdPc[c] = "drain"
    /\ sdDrains' = sdDrains + 1
    /\ \E r \in CallResults :
        sdLogged' = [sdLogged EXCEPT ![c] = IF r = "error" THEN @ \cup {"drain"} ELSE @]
    /\ sdPc' = [sdPc EXCEPT ![c] = "sync"]
    /\ UNCHANGED <<sdResult, sdSchedulerStops>>
    /\ UNCHANGED ExceptStop

\* a.logger.Sync(), the last log line, return nil.
ShutdownReturnsNil(c) ==
    /\ sdPc[c] = "sync"
    /\ sdResult' = [sdResult EXCEPT ![c] = "nil"]
    /\ sdPc' = [sdPc EXCEPT ![c] = "returned"]
    /\ UNCHANGED <<sdLogged, sdSchedulerStops, sdDrains>>
    /\ UNCHANGED ExceptStop

NextStop ==
    \E c \in Callers :
        \/ ShutdownEntered(c)
        \/ SchedulerShutdownCalled(c)
        \/ DrainCalledBy(c)
        \/ ShutdownReturnsNil(c)

(***************************************************************************)
(* Claims about the callers of Agent.Shutdown.                             *)
(***************************************************************************)
\* C38: whichever way the signal wait of Run and the service manager's Stop
\* callback interleave in Agent.Shutdown, the scheduler shutdown and the bus
\* drain are each initiated at most once, and a call of Shutdown that has
\* returned returned nil, also when the scheduler shutdown or the drain
\* reported an error.
C38_ShutdownInitiatedOnce ==
    /\ sdSchedulerStops <= 1
    /\ sdDrains <= 1
    /\ \A c \in Callers : sdPc[c] = "returned" => sdResult[c] = "nil"

(***************************************************************************)
(* The specifications: each runs one subsystem, the others are at rest.    *)
(***************************************************************************)
StartExec ==
    /\ InitExec
    /\ LogsIdle /\ ServiceIdle /\ HandlersIdle /\ PublishIdle /\ SchedulerIdle /\ MetricsIdle /\ DrainIdle /\ LifecycleIdle /\ HealthIdle /\ RunIdle /\ ConfigIdle /\ BringUpIdle /\ BaselineIdle /\ StatsIdle /\ ConnectIdle /\ StopIdle

SpecExec == StartExec /\ [][NextExec]_vars

StartLogs ==
    /\ InitLogs
    /\ ExecIdle /\ ServiceIdle /\ HandlersIdle /\ PublishIdle /\ SchedulerIdle /\ MetricsIdle /\ DrainIdle /\ LifecycleIdle /\ HealthIdle /\ RunIdle /\ ConfigIdle /\ BringUpIdle /\ BaselineIdle /\ StatsIdle /\ ConnectIdle /\ StopIdle

SpecLogs == StartLogs /\ [][NextLogs]_vars

StartTail ==
    /\ InitTail
    /\ ExecIdle /\ ServiceIdle /\ HandlersIdle /\ PublishIdle /\ SchedulerIdle /\ MetricsIdle /\ DrainIdle /\ LifecycleIdle /\ HealthIdle /\ RunIdle /\ ConfigIdle /\ BringUpIdle /\ BaselineIdle /\ StatsIdle /\ ConnectIdle /\ StopIdle

SpecTail == StartTail /\ [][NextLogs]_vars

StartService ==
    /\ InitService
    /\ ExecIdle /\ LogsIdle /\ HandlersIdle /\ PublishIdle /\ SchedulerIdle /\ MetricsIdle /\ DrainIdle /\ LifecycleIdle /\ HealthIdle /\ RunIdle /\ ConfigIdle /\ BringUpIdle /\ BaselineIdle /\ StatsIdle /\ ConnectIdle /\ StopIdle

SpecService == StartService /\ [][NextService]_vars

StartHandlers ==
    /\ InitHandlers
    /\ ExecIdle /\ LogsIdle /\ ServiceIdle /\ PublishIdle /\ SchedulerIdle /\ MetricsIdle /\ DrainIdle /\ LifecycleIdle /\ HealthIdle /\ RunIdle /\ ConfigIdle /\ BringUpIdle /\ BaselineIdle /\ StatsIdle /\ ConnectIdle /\ StopIdle

SpecHandlers == StartHandlers /\ [][NextHandlers]_vars

StartPublish ==
    /\ InitPublish
    /\ ExecIdle /\ LogsIdle /\ ServiceIdle /\ HandlersIdle /\ SchedulerIdle /\ MetricsIdle /\ DrainIdle /\ LifecycleIdle /\ HealthIdle /\ RunIdle /\ ConfigIdle /\ BringUpIdle /\ BaselineIdle /\ StatsIdle /\ ConnectIdle /\ StopIdle

SpecPublish == StartPublish /\ [][NextPublish]_vars

StartScheduler ==
    /\ InitScheduler
    /\ ExecIdle /\ LogsIdle /\ ServiceIdle /\ HandlersIdle /\ PublishIdle /\ MetricsIdle /\ DrainIdle /\ LifecycleIdle /\ HealthIdle /\ RunIdle /\ ConfigIdle /\ BringUpIdle /\ BaselineIdle /\ StatsIdle /\ ConnectIdle /\ StopIdle

SpecScheduler == StartScheduler /\ [][NextScheduler]_vars

StartMetrics ==
    /\ InitMetrics
    /\ ExecIdle /\ LogsIdle /\ ServiceIdle /\ HandlersIdle /\ PublishIdle /\ SchedulerIdle /\ DrainIdle /\ LifecycleIdle /\ HealthIdle /\ RunIdle /\ ConfigIdle /\ BringUpIdle /\ BaselineIdle /\ StatsIdle /\ ConnectIdle /\ StopIdle

SpecMetrics == StartMetrics /\ [][NextMetrics]_vars

SpecConsecutive == StartMetrics /\ [][NextConsecutive]_vars

StartCache ==
    /\ InitCache
    /\ ExecIdle /\ LogsIdle /\ ServiceIdle /\ HandlersIdle /\ PublishIdle /\ SchedulerIdle /\ DrainIdle /\ LifecycleIdle /\ HealthIdle /\ RunIdle /\ ConfigIdle /\ BringUpIdle /\ BaselineIdle /\ StatsIdle /\ ConnectIdle /\ StopIdle

SpecCache == StartCache /\ [][NextConsecutive]_vars

StartDrain ==
    /\ InitDrain
    /\ ExecIdle /\ LogsIdle /\ ServiceIdle /\ HandlersIdle /\ PublishIdle /\ SchedulerIdle /\ MetricsIdle /\ LifecycleIdle /\ HealthIdle /\ RunIdle /\ ConfigIdle /\ BringUpIdle /\ BaselineIdle /\ StatsIdle /\ ConnectIdle /\ StopIdle

SpecDrain == StartDrain /\ [][NextDrain]_vars

StartLifecycle ==
    /\ InitLifecycle
    /\ InitDrain
    /\ ExecIdle /\ LogsIdle /\ ServiceIdle /\ HandlersIdle /\ PublishIdle /\ SchedulerIdle /\ MetricsIdle /\ HealthIdle /\ RunIdle /\ ConfigIdle /\ BringUpIdle /\ BaselineIdle /\ StatsIdle /\ ConnectIdle /\ StopIdle

SpecLifecycle == StartLifecycle /\ [][NextLifecycle]_vars

StartHealth ==
    /\ InitHealth
    /\ ExecIdle /\ LogsIdle /\ ServiceIdle /\ HandlersIdle /\ PublishIdle /\ SchedulerIdle /\ MetricsIdle /\ DrainIdle /\ LifecycleIdle /\ RunIdle /\ ConfigIdle /\ BringUpIdle /\ BaselineIdle /\ StatsIdle /\ ConnectIdle /\ StopIdle

SpecHealth == StartHealth /\ [][NextHealth]_vars

StartRun ==
    /\ InitRun
    /\ LogsIdle /\ ServiceIdle /\ HandlersIdle /\ PublishIdle /\ SchedulerIdle /\ MetricsIdle /\ DrainIdle /\ LifecycleIdle /\ HealthIdle /\ ConfigIdle /\ ConfigIdle /\ BringUpIdle /\ BaselineIdle /\ StatsIdle /\ ConnectIdle /\ StopIdle

SpecRun == StartRun /\ [][NextRun]_vars

StartConfig ==
    /\ InitConfig
    /\ ExecIdle /\ LogsIdle /\ ServiceIdle /\ HandlersIdle /\ PublishIdle /\ SchedulerIdle /\ MetricsIdle /\ DrainIdle /\ LifecycleIdle /\ HealthIdle /\ RunIdle /\ BringUpIdle /\ BaselineIdle /\ StatsIdle /\ ConnectIdle /\ StopIdle

SpecConfig == StartConfig /\ [][NextConfig]_vars

StartBringUp ==
    /\ InitBringUp
    /\ ExecIdle /\ LogsIdle /\ ServiceIdle /\ HandlersIdle /\ PublishIdle /\ SchedulerIdle /\ MetricsIdle /\ DrainIdle /\ LifecycleIdle /\ HealthIdle /\ RunIdle /\ ConfigIdle /\ BaselineIdle /\ StatsIdle /\ ConnectIdle /\ StopIdle

SpecBringUp == StartBringUp /\ [][NextBringUp]_vars

StartBaseline ==
    /\ InitBaseline
    /\ ExecIdle /\ LogsIdle /\ ServiceIdle /\ HandlersIdle /\ PublishIdle /\ SchedulerIdle /\ MetricsIdle /\ DrainIdle /\ LifecycleIdle /\ HealthIdle /\ RunIdle /\ ConfigIdle /\ BringUpIdle /\ StatsIdle /\ ConnectIdle /\ StopIdle

SpecBaseline == StartBaseline /\ [][NextBaseline]_vars

StartStats ==
    /\ InitStats
    /\ ExecIdle /\ LogsIdle /\ ServiceIdle /\ HandlersIdle /\ PublishIdle /\ SchedulerIdle /\ MetricsIdle /\ DrainIdle /\ LifecycleIdle /\ HealthIdle /\ RunIdle /\ ConfigIdle /\ BringUpIdle /\ BaselineIdle /\ ConnectIdle /\ StopIdle

SpecStats == StartStats /\ [][NextStats]_vars

StartConnect ==
    /\ InitConnect
    /\ ExecIdle /\ LogsIdle /\ ServiceIdle /\ HandlersIdle /\ PublishIdle /\ SchedulerIdle /\ MetricsIdle /\ DrainIdle /\ LifecycleIdle /\ HealthIdle /\ RunIdle /\ ConfigIdle /\ BringUpIdle /\ BaselineIdle /\ StatsIdle /\ StopIdle

SpecConnect == StartConnect /\ [][NextConnect]_vars

StartStop ==
    /\ InitStop
    /\ ExecIdle /\ LogsIdle /\ ServiceIdle /\ HandlersIdle /\ PublishIdle /\ SchedulerIdle /\ MetricsIdle /\ DrainIdle /\ LifecycleIdle /\ HealthIdle /\ RunIdle /\ ConfigIdle /\ BringUpIdle /\ BaselineIdle /\ StatsIdle /\ ConnectIdle

SpecStop == StartStop /\ [][NextStop]_vars

=============================================================================
